---- MODULE Spec2Model ----
(***************************************************************************)
(* Model of the bank-statement extraction service.                         *)
(*                                                                         *)
(*   - the streaming PDF orchestrator (POST of the parse-pdf route): the   *)
(*     chunk loop, the per-chunk retry loop, pacing and rate-limit          *)
(*     back-off, the NDJSON event stream and the caller's abort;           *)
(*   - the single-shot image handler (POST of the parse-image route);      *)
(*   - the two response recoverers (parseAIResponse of each route) over    *)
(*     token strings, with a small JSON reader standing for JSON.parse.    *)
(*                                                                         *)
(* A response text is a sequence of tokens.  One token stands for one      *)
(* lexical unit of the text:                                               *)
(*   "{" "}" "[" "]" ","   the JSON punctuation                            *)
(*   "T"   the key "transactions" with its colon                           *)
(*   "B"   the key "bankName" with its colon                               *)
(*   "D"   the key "debit" with its colon    "C"   the key "credit"        *)
(*   "K"   any other key with its colon                                    *)
(*   "s" "r"  two distinct non-empty string literals                       *)
(*   "1"   a non-zero number            "n"   null                         *)
(*   "w"   a word of prose              "_" white space                    *)
(*   "F"   a code fence (three backticks, with or without the json tag)    *)
(***************************************************************************)
EXTENDS Integers, Sequences, FiniteSets, TLC

\* ------------------------------------------------------------------ bounds

\* Largest page count of a submitted document.
MaxPages == 3

\* The counters of chunkLog count up to this and then stay (the code keeps each
\* of them at 3 or below).
LogMax == 4

\* Longest text, in tokens, parseAIResponse is evaluated on exhaustively.
MaxTextLen == 4

\* Largest page count and largest chunk size splitPdfIntoChunks is evaluated on.
MaxSplitPages == 12
MaxChunkSize == 5

\* Most lines of an event stream handed to the page's reader.
MaxLines == 3

\* Longest amount text, in characters, parseAmount is evaluated on exhaustively.
MaxAmountLen == 4

\* Longest amount text, in characters, determineDebitCredit is evaluated on with
\* every type hint.
MaxHintedAmountLen == 3

\* Most transactions in a list handed to findDuplicates.
MaxTransactions == 3

\* Most transactions in a list handed to generateTallyXml.
MaxVouchers == 2

\* ------------------------------------------------------- program constants

GEMINI_PAGES_PER_CHUNK == 2
GROQ_PAGES_PER_CHUNK == 2

MAX_RETRIES_OffByOne == 2 + 1
MAX_RETRIES == 2

\* ------------------------------------------------------------ JS values

Keys == {"T", "B", "K", "D", "C"}
Strs == {"s", "r"}

JNull == [k |-> "null", c |-> <<>>]
JNum == [k |-> "num", c |-> <<>>]
JStr(t) == [k |-> "str", c |-> <<t>>]
JArr(items) == [k |-> "arr", c |-> items]
JObj(members) == [k |-> "obj", c |-> members]
Undefined == [k |-> "undefined", c |-> <<>>]

\* JavaScript truthiness of the values the token alphabet can denote ("s" is a
\* non-empty string and "1" a non-zero number).
Truthy(v) == v.k \in {"num", "str", "arr", "obj"}

\* Property read v[key] on a parsed value: the last member of that name of an
\* object, undefined on anything else that is not null.
RECURSIVE LookupFrom(_, _, _)
LookupFrom(members, key, i) ==
    IF i = 0 THEN Undefined
    ELSE IF members[i].key = key THEN members[i].val
    ELSE LookupFrom(members, key, i - 1)

Get(v, key) == IF v.k = "obj" THEN LookupFrom(v.c, key, Len(v.c)) ELSE Undefined

\* ------------------------------------------------------------ text helpers

IsWs(t) == t = "_"

RECURSIVE TrimLeft(_)
TrimLeft(s) == IF s # <<>> /\ IsWs(Head(s)) THEN TrimLeft(Tail(s)) ELSE s

RECURSIVE TrimRight(_)
TrimRight(s) ==
    IF s # <<>> /\ IsWs(s[Len(s)]) THEN TrimRight(SubSeq(s, 1, Len(s) - 1)) ELSE s

\* String.prototype.trim
Trim(s) == TrimRight(TrimLeft(s))

\* Smallest index >= from holding token t, 0 when there is none.
RECURSIVE IndexFrom(_, _, _)
IndexFrom(s, t, from) ==
    IF from > Len(s) THEN 0
    ELSE IF s[from] = t THEN from
    ELSE IndexFrom(s, t, from + 1)

\* Largest index holding token t, 0 when there is none.
RECURSIVE LastIndexUpTo(_, _, _)
LastIndexUpTo(s, t, upto) ==
    IF upto < 1 THEN 0
    ELSE IF s[upto] = t THEN upto
    ELSE LastIndexUpTo(s, t, upto - 1)

\* All sequences over alphabet of length 0..n.
SeqsUpTo(alphabet, n) == UNION { [1..k -> alphabet] : k \in 0..n }

\* ------------------------------------------------------------ JSON.parse

ParseFail == [ok |-> FALSE, val |-> Undefined, next |-> 0]

RECURSIVE ParseValue(_, _), ParseItems(_, _, _), ParseMembers(_, _, _)

\* One JSON value starting at s[i]; next is the index after it.
ParseValue(s, i) ==
    IF i > Len(s) THEN ParseFail
    ELSE IF s[i] = "n" THEN [ok |-> TRUE, val |-> JNull, next |-> i + 1]
    ELSE IF s[i] = "1" THEN [ok |-> TRUE, val |-> JNum, next |-> i + 1]
    ELSE IF s[i] \in Strs THEN [ok |-> TRUE, val |-> JStr(s[i]), next |-> i + 1]
    ELSE IF s[i] = "[" THEN
        IF i + 1 <= Len(s) /\ s[i + 1] = "]"
        THEN [ok |-> TRUE, val |-> JArr(<<>>), next |-> i + 2]
        ELSE ParseItems(s, i + 1, <<>>)
    ELSE IF s[i] = "{" THEN
        IF i + 1 <= Len(s) /\ s[i + 1] = "}"
        THEN [ok |-> TRUE, val |-> JObj(<<>>), next |-> i + 2]
        ELSE ParseMembers(s, i + 1, <<>>)
    ELSE ParseFail

\* value ("," value)* "]"
ParseItems(s, i, acc) ==
    LET v == ParseValue(s, i) IN
    IF ~v.ok \/ v.next > Len(s) THEN ParseFail
    ELSE IF s[v.next] = "]"
        THEN [ok |-> TRUE, val |-> JArr(Append(acc, v.val)), next |-> v.next + 1]
    ELSE IF s[v.next] = ","
        THEN ParseItems(s, v.next + 1, Append(acc, v.val))
    ELSE ParseFail

\* key value ("," key value)* "}"
ParseMembers(s, i, acc) ==
    IF i > Len(s) \/ s[i] \notin Keys THEN ParseFail
    ELSE
        LET v == ParseValue(s, i + 1)
            m == [key |-> s[i], val |-> v.val]
        IN
        IF ~v.ok \/ v.next > Len(s) THEN ParseFail
        ELSE IF s[v.next] = "}"
            THEN [ok |-> TRUE, val |-> JObj(Append(acc, m)), next |-> v.next + 1]
        ELSE IF s[v.next] = ","
            THEN ParseMembers(s, v.next + 1, Append(acc, m))
        ELSE ParseFail

\* White space between JSON tokens is insignificant.
StripWs(s) == SelectSeq(s, LAMBDA t: ~IsWs(t))

\* JSON.parse(text): ok with the value when the whole text is one JSON value,
\* not ok (a SyntaxError) otherwise.
JSONparse(text) ==
    LET s == StripWs(text)
        v == ParseValue(s, 1)
    IN IF v.ok /\ v.next = Len(s) + 1 THEN v ELSE ParseFail

\* ------------------------------------------------- response recoverer (PDF)

\* The explicit empty result { transactions: [] }.
EmptyResult == JObj(<<[key |-> "T", val |-> JArr(<<>>)]>>)

\* The fenced-block match of responseText: the text between the first
\* fence and the next one; ok is FALSE when the text holds fewer than two fences.
FenceMatch(text) ==
    LET f1 == IndexFrom(text, "F", 1)
        f2 == IF f1 = 0 THEN 0 ELSE IndexFrom(text, "F", f1 + 1)
    IN IF f2 = 0 THEN [ok |-> FALSE, inner |-> <<>>]
       ELSE [ok |-> TRUE, inner |-> SubSeq(text, f1 + 1, f2 - 1)]

\* The brace-counting loop.  startIdx and endIdx are 1-based positions of the
\* opening and of the closing brace, 0 standing for -1 in the code.
RECURSIVE BraceScan(_, _, _, _)
BraceScan(s, idx, braceCount, startIdx) ==
    IF idx > Len(s) THEN [startIdx |-> startIdx, endIdx |-> 0]
    ELSE IF s[idx] = "{" THEN
        BraceScan(s, idx + 1, braceCount + 1, IF startIdx = 0 THEN idx ELSE startIdx)
    ELSE IF s[idx] = "}" THEN
        IF braceCount - 1 = 0 /\ startIdx # 0
        THEN [startIdx |-> startIdx, endIdx |-> idx]
        ELSE BraceScan(s, idx + 1, braceCount - 1, startIdx)
    ELSE BraceScan(s, idx + 1, braceCount, startIdx)

\* text.match(/\[[\s\S]*\]/): from the first "[" to the last "]" after it.
ArrayMatch(text) ==
    LET a == IndexFrom(text, "[", 1)
        b == LastIndexUpTo(text, "]", Len(text))
    IN IF a = 0 \/ b < a THEN [ok |-> FALSE, m |-> <<>>]
       ELSE [ok |-> TRUE, m |-> SubSeq(text, a, b)]

\* jsonStr after the fence match: the trimmed interior of the fenced block, or
\* the whole text.
Unfenced(responseText) ==
    LET fence == FenceMatch(responseText)
    IN IF fence.ok THEN Trim(fence.inner) ELSE responseText

\* jsonStr as handed to JSON.parse: the span the brace-counting loop found, or
\* jsonStr unchanged when it found none.
JsonStr(responseText) ==
    LET jsonStr0 == Unfenced(responseText)
        span == BraceScan(jsonStr0, 1, 0, 0)
    IN IF span.startIdx # 0 /\ span.endIdx # 0
       THEN SubSeq(jsonStr0, span.startIdx, span.endIdx)
       ELSE jsonStr0

\* parseAIResponse of the parse-pdf route: the parsed value.
parseAIResponse(responseText) ==
    IF Trim(responseText) = <<>> THEN EmptyResult
    ELSE
        LET jsonStr == JsonStr(responseText)
            whole == JSONparse(jsonStr)
            arrayMatch == ArrayMatch(responseText)
            arr == JSONparse(arrayMatch.m)
        IN IF whole.ok THEN whole.val
           ELSE IF arrayMatch.ok /\ arr.ok
                THEN JObj(<<[key |-> "T", val |-> arr.val]>>)
           ELSE EmptyResult

\* ----------------------------------------------- response recoverer (image)

\* text.match(/\{[\s\S]*\}/): from the first "{" to the last "}" after it.
ObjectMatch(text) ==
    LET a == IndexFrom(text, "{", 1)
        b == LastIndexUpTo(text, "}", Len(text))
    IN IF a = 0 \/ b < a THEN [ok |-> FALSE, m |-> <<>>]
       ELSE [ok |-> TRUE, m |-> SubSeq(text, a, b)]

\* Index of the first token at or after idx that is not white space (0: none).
RECURSIVE SkipWs(_, _)
SkipWs(s, idx) ==
    IF idx > Len(s) THEN 0 ELSE IF IsWs(s[idx]) THEN SkipWs(s, idx + 1) ELSE idx

\* text.match(/"transactions"\s*:\s*(\[[\s\S]*?\])/): the first "transactions"
\* key followed by "[", and from that "[" to the first "]" after it.
RECURSIVE FallbackMatchFrom(_, _)
FallbackMatchFrom(text, idx) ==
    LET t == IndexFrom(text, "T", idx)
        a == IF t = 0 THEN 0 ELSE SkipWs(text, t + 1)
        b == IF a = 0 THEN 0 ELSE IndexFrom(text, "]", a + 1)
    IN IF t = 0 THEN [ok |-> FALSE, m |-> <<>>]
       ELSE IF a # 0 /\ text[a] = "[" /\ b # 0
            THEN [ok |-> TRUE, m |-> SubSeq(text, a, b)]
       ELSE FallbackMatchFrom(text, t + 1)

Thrown(msg) == [threw |-> TRUE, msg |-> msg, val |-> Undefined]
Returned(v) == [threw |-> FALSE, msg |-> <<>>, val |-> v]

\* parseAIResponse of the parse-image route: the parsed value, or the Error it
\* throws.
parseAIResponseImage(responseText) ==
    IF Trim(responseText) = <<>> THEN Thrown(<<"AI returned empty response">>)
    ELSE
        LET fence == FenceMatch(responseText)
            jsonStr0 == IF fence.ok THEN Trim(fence.inner) ELSE responseText
            objectMatch == ObjectMatch(jsonStr0)
            arrayMatch == ArrayMatch(jsonStr0)
            arr == JSONparse(arrayMatch.m)
            jsonStr == IF objectMatch.ok THEN objectMatch.m ELSE jsonStr0
            whole == JSONparse(jsonStr)
            fallbackMatch == FallbackMatchFrom(responseText, 1)
            fb == JSONparse(fallbackMatch.m)
        IN IF ~objectMatch.ok /\ arrayMatch.ok THEN
               IF arr.ok THEN Returned(JObj(<<[key |-> "T", val |-> arr.val]>>))
               ELSE Thrown(<<"SyntaxError">>)
           ELSE IF whole.ok THEN Returned(whole.val)
           ELSE IF fallbackMatch.ok /\ fb.ok
                THEN Returned(JObj(<<[key |-> "T", val |-> fb.val]>>))
           ELSE Thrown(<<"Could not parse AI response as JSON">>)

\* ------------------------------------------------------------------ chunker

RECURSIVE SplitFrom_NoClamp(_, _, _, _)
SplitFrom_NoClamp(startPage, totalPages, pagesPerChunk, acc) ==
    IF ~(startPage < totalPages) THEN acc
    ELSE
        LET endPage == startPage + pagesPerChunk
            out == Append(acc, [startPage |-> startPage, endPage |-> endPage])
        IN IF endPage >= totalPages THEN out
           ELSE SplitFrom_NoClamp(startPage + pagesPerChunk, totalPages, pagesPerChunk, out)

\* The page ranges [startPage, endPage) of the chunks splitPdfIntoChunks builds.
RECURSIVE SplitFrom(_, _, _, _)
SplitFrom(startPage, totalPages, pagesPerChunk, acc) ==
    IF ~(startPage < totalPages) THEN acc
    ELSE
        LET endPage == IF startPage + pagesPerChunk > totalPages
                       THEN totalPages
                       ELSE startPage + pagesPerChunk
            out == Append(acc, [startPage |-> startPage, endPage |-> endPage])
        IN IF endPage = totalPages THEN out
           ELSE SplitFrom(startPage + pagesPerChunk, totalPages, pagesPerChunk, out)

splitPdfIntoChunks(totalPages, pagesPerChunk) ==
    SplitFrom(0, totalPages, pagesPerChunk, <<>>)

\* ------------------------------------------------- lib/utils: parseDate

\* Texts of the library functions are sequences of characters, "_" standing for
\* a white-space character.
DigitChars == <<"0", "1", "2", "3", "4", "5", "6", "7", "8", "9">>

IsDigit(ch) == \E k \in DOMAIN DigitChars : DigitChars[k] = ch

\* parseInt of a run of digits
RECURSIVE parseInt(_)
parseInt(digits) ==
    IF digits = <<>> THEN 0
    ELSE parseInt(SubSeq(digits, 1, Len(digits) - 1)) * 10
            + (CHOOSE k \in 0..9 : DigitChars[k + 1] = digits[Len(digits)])

\* The length of the run of digits that starts at text[from].
RECURSIVE DigitRun(_, _)
DigitRun(text, from) ==
    IF from <= Len(text) /\ IsDigit(text[from]) THEN 1 + DigitRun(text, from + 1) ELSE 0

padStart2_None(t) == t

\* padStart(2, '0')
padStart2(t) == IF Len(t) < 2 THEN <<"0">> \o t ELSE t

\* /^\d{4}-\d{2}-\d{2}$/.test(text)
IsIsoDate(text) ==
    /\ Len(text) = 10
    /\ \A k \in 1..10 : IF k \in {5, 8} THEN text[k] = "-" ELSE IsDigit(text[k])

\* text.match(/^(\d{1,2})[seps](\d{1,2})[seps](\d{yearLen})$/)
DayMonthYearMatch(text, seps, yearLen) ==
    LET d == DigitRun(text, 1)
        m == DigitRun(text, d + 2)
        y == DigitRun(text, d + m + 3)
    IN IF /\ d \in 1..2
          /\ m \in 1..2
          /\ Len(text) = d + m + yearLen + 2
          /\ text[d + 1] \in seps
          /\ text[d + m + 2] \in seps
          /\ y = yearLen
       THEN [ok |-> TRUE, day |-> SubSeq(text, 1, d), month |-> SubSeq(text, d + 2, d + m + 1),
             year |-> SubSeq(text, d + m + 3, Len(text))]
       ELSE [ok |-> FALSE, day |-> <<>>, month |-> <<>>, year |-> <<>>]

\* new Date(text) of a text none of the three patterns matches is read by the
\* engine's own rules: it is an invalid date, or some date, whose
\* toISOString().split('T')[0] is then returned.
InvalidDate == <<"Invalid Date">>
DateObjects ==
    { InvalidDate,
      <<"2", "0", "2", "4", "-", "0", "6", "-", "0", "5">>,
      <<"2", "0", "2", "4", "-", "0", "6", "-", "0", "4">> }

\* parseInt(year) > 50 ? 19YY : 20YY
FullYear(year) == IF parseInt(year) > 50 THEN <<"1", "9">> \o year ELSE <<"2", "0">> \o year

\* The branch parseDate takes on dateStr.
DateForm(dateStr) ==
    LET cleaned == Trim(dateStr) IN
    IF dateStr = <<>> THEN "empty"
    ELSE IF IsIsoDate(cleaned) THEN "iso"
    ELSE IF DayMonthYearMatch(cleaned, {"/", "-", "."}, 4).ok THEN "dmy4"
    ELSE IF DayMonthYearMatch(cleaned, {"/", "-"}, 2).ok THEN "dmy2"
    ELSE "other"

\* parseDate(dateStr), dateObject being what new Date(cleaned) gives.
parseDate(dateStr, dateObject) ==
    LET cleaned == Trim(dateStr)
        match == DayMonthYearMatch(cleaned, {"/", "-", "."}, 4)
        usMatch == DayMonthYearMatch(cleaned, {"/", "-"}, 2)
    IN IF dateStr = <<>> THEN <<>>
       ELSE IF IsIsoDate(cleaned) THEN cleaned
       ELSE IF match.ok
            THEN match.year \o <<"-">> \o padStart2(match.month) \o <<"-">> \o padStart2(match.day)
       ELSE IF usMatch.ok
            THEN FullYear(usMatch.year) \o <<"-">> \o padStart2(usMatch.month) \o <<"-">>
                    \o padStart2(usMatch.day)
       ELSE IF dateObject # InvalidDate THEN dateObject
       ELSE cleaned

\* The date texts parseDate is evaluated on: day, month and year texts joined by
\* two separators, with every two-digit year, and texts of the other forms.
DateTexts ==
    LET days == { <<"5">>, <<"0", "5">>, <<"3", "1">> }
        months == { <<"6">>, <<"0", "6">>, <<"2">>, <<"1", "3">> }
        years == { <<a, b>> : a, b \in {DigitChars[k] : k \in DOMAIN DigitChars} }
                    \cup { <<"2", "0", "2", "4">>, <<"2", "0", "2", "3">> }
        seps == {"/", "-", "."}
    IN { d \o <<s1>> \o m \o <<s2>> \o y :
            d \in days, m \in months, y \in years, s1 \in seps, s2 \in seps }
       \cup { <<>>,
              <<"2", "0", "2", "4", "-", "0", "6", "-", "1", "5">>,
              <<"_", "5", "/", "6", "/", "2", "0", "2", "4", "_">>,
              <<"2", "0", "2", "4", "-", "6", "-", "5">>,
              <<"5", "/", "6", "/", "2", "0", "2">>,
              <<"1", "2", "3", "/", "6", "/", "2", "0", "2", "4">>,
              <<"J", "u", "n", "_", "5">> }

\* ------------------------------------------------ lib/utils: parseAmount

\* A JavaScript number: NaN, or the decimal mag / 10^scale with its sign, kept
\* with no trailing zero in the fraction.
NaN == [k |-> "NaN", neg |-> FALSE, mag |-> 0, scale |-> 0]

RECURSIVE Decimal(_, _, _)
Decimal(neg, mag, scale) ==
    IF scale > 0 /\ mag % 10 = 0 THEN Decimal(neg, mag \div 10, scale - 1)
    ELSE [k |-> "num", neg |-> neg, mag |-> mag, scale |-> scale]

MathAbs_None(v) == v

\* Math.abs
MathAbs(v) == IF v.k = "NaN" THEN NaN ELSE [v EXCEPT !.neg = FALSE]

\* The argument of parseAmount: a string or a number.
StringArg(text) == [type |-> "string", val |-> text]
NumberArg(v) == [type |-> "number", val |-> v]

\* The characters of amount texts: digits, sign, decimal point, comma, "$" for
\* each of the four currency symbols, "_" for white space, "d" "c" "r" for these
\* letters in either case, "x" for any other character.
AmountChars == {"0", "1", "5", "-", ".", ",", "$", "_", "d", "c", "r", "x"}

\* parseFloat of a text without leading white space: an optional minus sign,
\* then the longest run of digits with at most one decimal point in it.
parseFloat(text) ==
    LET neg == text # <<>> /\ text[1] = "-"
        from == IF neg THEN 2 ELSE 1
        intLen == DigitRun(text, from)
        dot == from + intLen
        fracLen == IF dot <= Len(text) /\ text[dot] = "." THEN DigitRun(text, dot + 1) ELSE 0
    IN IF intLen + fracLen = 0 THEN NaN
       ELSE Decimal(neg,
                    parseInt(SubSeq(text, from, dot - 1) \o SubSeq(text, dot + 1, dot + fracLen)),
                    fracLen)

\* cleaned.replace(/(dr\.?|cr\.?)$/i, '')
StripDrCr(text) ==
    LET n == Len(text) IN
    IF n >= 3 /\ text[n] = "." /\ text[n - 1] = "r" /\ text[n - 2] \in {"d", "c"}
    THEN SubSeq(text, 1, n - 3)
    ELSE IF n >= 2 /\ text[n] = "r" /\ text[n - 1] \in {"d", "c"}
    THEN SubSeq(text, 1, n - 2)
    ELSE text

\* parseAmount(amountStr)
parseAmount(amountStr) ==
    IF amountStr.type = "number" THEN MathAbs(amountStr.val)
    ELSE IF amountStr.val = <<>> THEN Decimal(FALSE, 0, 0)
    ELSE
        LET noSymbols == SelectSeq(Trim(amountStr.val), LAMBDA ch : ch \notin {"$", "_"})
            noCommas == SelectSeq(noSymbols, LAMBDA ch : ch # ",")
            num == parseFloat(StripDrCr(noCommas))
        IN IF num.k = "NaN" THEN Decimal(FALSE, 0, 0) ELSE MathAbs(num)

\* The arguments parseAmount is evaluated on: every text of up to MaxAmountLen
\* characters and longer texts of the usual notations; numbers.  Every caller
\* passes a string (String(...) of a field, or a cell of a sheet); a number is
\* passed by the tests only.
AmountTexts ==
    { StringArg(t) : t \in SeqsUpTo(AmountChars, MaxAmountLen) }
    \cup { StringArg(<<"1", ",", "0", "0", ",", "0", "0", "0">>),
           StringArg(<<"5", "0", ",", "0", "0", "0", ".", "5", "0">>),
           StringArg(<<"$", "_", "1", "0", "0", "0">>),
           StringArg(<<"-", "5", "0", "0", "0">>),
           StringArg(<<"5", "0", "0", "0", "_", "c", "r">>),
           StringArg(<<"_", "1", ",", "5", "0", "0", ".", "5", "_", "d", "r", ".">>) }

AmountNumbers ==
    { NumberArg(Decimal(FALSE, 500, 0)), NumberArg(Decimal(TRUE, 55, 1)),
      NumberArg(Decimal(FALSE, 0, 0)) }

\* ---------------------------------------- lib/utils: determineDebitCredit

\* String.prototype.includes
StringIncludes(text, word) ==
    \E k \in 1..(Len(text) - Len(word) + 1) : SubSeq(text, k, k + Len(word) - 1) = word

Capitals ==
    <<"A", "B", "C", "D", "E", "F", "G", "H", "I", "J", "K", "L", "M",
      "N", "O", "P", "Q", "R", "S", "T", "U", "V", "W", "X", "Y", "Z">>
Smalls ==
    <<"a", "b", "c", "d", "e", "f", "g", "h", "i", "j", "k", "l", "m",
      "n", "o", "p", "q", "r", "s", "t", "u", "v", "w", "x", "y", "z">>

\* String.prototype.toLowerCase: each capital letter becomes its small letter.
toLowerCase(text) ==
    [k \in DOMAIN text |->
        IF \E j \in DOMAIN Capitals : Capitals[j] = text[k]
        THEN Smalls[CHOOSE j \in DOMAIN Capitals : Capitals[j] = text[k]]
        ELSE text[k]]

\* The decimal digits of a natural number, and those of the last scale places
\* of one.
RECURSIVE IntDigits(_)
IntDigits(n) ==
    IF n < 10 THEN <<DigitChars[n + 1]>>
    ELSE IntDigits(n \div 10) \o <<DigitChars[(n % 10) + 1]>>

RECURSIVE FracDigits(_, _)
FracDigits(m, scale) ==
    IF scale = 0 THEN <<>>
    ELSE FracDigits(m \div 10, scale - 1) \o <<DigitChars[(m % 10) + 1]>>

RECURSIVE IntPart(_, _)
IntPart(m, scale) == IF scale = 0 THEN m ELSE IntPart(m \div 10, scale - 1)

\* Number.prototype.toString
NumberToString(v) ==
    IF v.k = "NaN" THEN <<"N", "a", "N">>
    ELSE (IF v.neg /\ v.mag # 0 THEN <<"-">> ELSE <<>>)
            \o IntDigits(IntPart(v.mag, v.scale))
            \o (IF v.scale = 0 THEN <<>> ELSE <<".">> \o FracDigits(v.mag, v.scale))

\* The words looked for in the hint.
DebitWords ==
    { <<"d", "r">>, <<"d", "e", "b", "i", "t">>,
      <<"w", "i", "t", "h", "d", "r", "a", "w", "a", "l">> }
CreditWords ==
    { <<"c", "r">>, <<"c", "r", "e", "d", "i", "t">>,
      <<"d", "e", "p", "o", "s", "i", "t">> }

\* determineDebitCredit(amountStr, typeHint); an absent typeHint is the empty
\* text.
determineDebitCredit(amountStr, typeHint) ==
    LET amount == parseAmount(amountStr)
        amountString == toLowerCase(IF amountStr.type = "number"
                                    THEN NumberToString(amountStr.val)
                                    ELSE amountStr.val)
        hint == toLowerCase(typeHint)
        zero == Decimal(FALSE, 0, 0)
        toDebit == [debit |-> amount, credit |-> zero]
        toCredit == [debit |-> zero, credit |-> amount]
    IN IF \E w \in DebitWords : StringIncludes(hint, w) THEN toDebit
       ELSE IF \E w \in CreditWords : StringIncludes(hint, w) THEN toCredit
       ELSE IF \/ StringIncludes(amountString, <<"d", "r">>)
               \/ (amountString # <<>> /\ amountString[1] = "-")
            THEN toDebit
       ELSE IF StringIncludes(amountString, <<"c", "r">>) THEN toCredit
       ELSE IF amountStr.type = "number" /\ amountStr.val.neg /\ amountStr.val.mag # 0
            THEN toDebit
       ELSE toCredit

\* The type hints determineDebitCredit is evaluated with: none, the markers in
\* either case, the words, a hint with a credit and a debit marker, a hint with
\* neither.
HintTexts ==
    { <<>>, <<"D", "R">>, <<"d", "r">>, <<"C", "R">>, <<"C", "r">>,
      <<"D", "e", "b", "i", "t">>, <<"c", "r", "e", "d", "i", "t">>,
      <<"w", "i", "t", "h", "d", "r", "a", "w", "a", "l">>,
      <<"d", "e", "p", "o", "s", "i", "t">>,
      <<"C", "R", "_", "D", "R">>, <<"n", "e", "f", "t">> }

\* The amounts it is evaluated on: every text of up to MaxHintedAmountLen
\* characters, the texts of the tests, and numbers.
HintedAmountTexts ==
    { StringArg(t) : t \in SeqsUpTo(AmountChars, MaxHintedAmountLen) }
    \cup { StringArg(<<"5", "0", "0", "0", "_", "d", "r">>),
           StringArg(<<"5", "0", "0", "0", "_", "c", "r">>),
           StringArg(<<"5", "0", "0", "0">>),
           StringArg(<<"-", "5", "0", "0", "0">>) }

HintedAmountNumbers ==
    AmountNumbers \cup { NumberArg(Decimal(TRUE, 5000, 0)) }

\* ---------------------------------------------- lib/utils: findDuplicates

\* getDuplicateKey(tx): the fields joined by "|".
getDuplicateKey(tx) ==
    tx.date \o <<"|">> \o Trim(toLowerCase(tx.description)) \o <<"|">>
        \o NumberToString(tx.debit) \o <<"|">> \o NumberToString(tx.credit) \o <<"|">>
        \o tx.reference

\* The loop of findDuplicates from transactions[k] on: seen maps a key to the ids
\* of the transactions so far that have it.
RECURSIVE FindDuplicatesFrom(_, _, _, _)
FindDuplicatesFrom(transactions, k, seen, duplicateIds) ==
    IF k > Len(transactions) THEN duplicateIds
    ELSE
        LET tx == transactions[k]
            key == getDuplicateKey(tx)
            existing == IF key \in DOMAIN seen THEN seen[key] ELSE <<>>
            dups == IF Len(existing) > 0
                    THEN duplicateIds \cup {tx.id}
                             \cup { existing[j] : j \in DOMAIN existing }
                    ELSE duplicateIds
            seen1 == [x \in DOMAIN seen \cup {key} |->
                         IF x = key THEN Append(existing, tx.id) ELSE seen[x]]
        IN FindDuplicatesFrom(transactions, k + 1, seen1, dups)

findDuplicates(transactions) == FindDuplicatesFrom(transactions, 1, <<>>, {})

\* The transactions findDuplicates is evaluated on, without their ids: a
\* description, one that differs from it in case and outer white space only,
\* one that continues it with "|" and a digit, another one; no reference or one
\* of a digit and "|"; an amount paid out or paid in; and two of another date.
DuplicateDate == <<"2", "0", "2", "4", "-", "0", "1", "-", "0", "1">>
OtherDate == <<"2", "0", "2", "4", "-", "0", "1", "-", "0", "2">>

DuplicateCandidates ==
    { [date |-> DuplicateDate, description |-> d, debit |-> a[1], credit |-> a[2],
       reference |-> r] :
        d \in { <<"a">>, <<"A", "_">>, <<"a", "|", "0">>, <<"b">> },
        a \in { <<Decimal(FALSE, 1, 0), Decimal(FALSE, 0, 0)>>,
                <<Decimal(FALSE, 0, 0), Decimal(FALSE, 1, 0)>> },
        r \in { <<>>, <<"0", "|">> } }
    \cup { [date |-> OtherDate, description |-> <<"a">>, debit |-> Decimal(FALSE, 1, 0),
            credit |-> Decimal(FALSE, 0, 0), reference |-> r] : r \in { <<>>, <<"0", "|">> } }

\* A list of transactions, each with its own id.
WithIds(txs) ==
    [k \in DOMAIN txs |->
        [id |-> k, date |-> txs[k].date, description |-> txs[k].description,
         debit |-> txs[k].debit, credit |-> txs[k].credit,
         reference |-> txs[k].reference]]

\* ------------------------------------------------------- tally-xml export

\* The texts of the export are sequences of characters, "_" standing for a
\* space.

\* str.replace(/ch/g, by)
RECURSIVE ReplaceAll(_, _, _)
ReplaceAll(str, ch, by) ==
    IF str = <<>> THEN <<>>
    ELSE (IF Head(str) = ch THEN by ELSE <<Head(str)>>) \o ReplaceAll(Tail(str), ch, by)

\* The entities escapeXml writes.
EntityAmp == <<"&", "a", "m", "p", ";">>
EntityLt == <<"&", "l", "t", ";">>
EntityGt == <<"&", "g", "t", ";">>
EntityQuot == <<"&", "q", "u", "o", "t", ";">>
EntityApos == <<"&", "a", "p", "o", "s", ";">>

\* escapeXml(str): the five replacements, in the order of the code.
escapeXml(str) ==
    ReplaceAll(ReplaceAll(ReplaceAll(ReplaceAll(ReplaceAll(str,
        "&", EntityAmp), "<", EntityLt), ">", EntityGt), "\"", EntityQuot),
        "'", EntityApos)

\* formatTallyDate(dateStr)
formatTallyDate(dateStr) == ReplaceAll(dateStr, "-", <<>>)

\* amount.toFixed(2), for an amount of at most two decimals.
toFixed2(v) ==
    LET cents == IF v.scale = 0 THEN v.mag * 100
                 ELSE IF v.scale = 1 THEN v.mag * 10 ELSE v.mag
    IN (IF v.neg /\ v.mag # 0 THEN <<"-">> ELSE <<>>)
          \o IntDigits(cents \div 100) \o <<".">> \o FracDigits(cents % 100, 2)

\* amount > 0
Positive(v) == v.k = "num" /\ ~v.neg /\ v.mag > 0

VoucherPayment == <<"P", "a", "y", "m", "e", "n", "t">>
VoucherReceipt == <<"R", "e", "c", "e", "i", "p", "t">>
VoucherContra == <<"C", "o", "n", "t", "r", "a">>

\* The words a self transfer is known by.
WordTransfer == <<"t", "r", "a", "n", "s", "f", "e", "r">>
WordSelf == <<"s", "e", "l", "f">>
WordOwn == <<"o", "w", "n">>

getVoucherType_NoContra(tx) ==
    IF Positive(tx.debit) THEN VoucherPayment ELSE VoucherReceipt

\* getVoucherType(tx)
getVoucherType(tx) ==
    LET desc == toLowerCase(tx.description) IN
    IF /\ StringIncludes(desc, WordTransfer)
       /\ (StringIncludes(desc, WordSelf) \/ StringIncludes(desc, WordOwn))
    THEN VoucherContra
    ELSE IF Positive(tx.debit) THEN VoucherPayment
    ELSE VoucherReceipt

\* No rule: null.
NoRule == [keywords |-> <<>>, ledgerName |-> <<>>, voucherType |-> <<>>, matched |-> FALSE]

\* rule.keywords.some(keyword => desc.includes(keyword.toLowerCase()))
RuleMatches(rule, desc) ==
    \E j \in DOMAIN rule.keywords : StringIncludes(desc, toLowerCase(rule.keywords[j]))

RECURSIVE LastMatchingRule(_, _, _)
LastMatchingRule(desc, rules, k) ==
    IF k = 0 THEN NoRule
    ELSE IF RuleMatches(rules[k], desc)
         THEN [keywords |-> rules[k].keywords, ledgerName |-> rules[k].ledgerName,
               voucherType |-> rules[k].voucherType, matched |-> TRUE]
    ELSE LastMatchingRule(desc, rules, k - 1)

\* The loop of findMatchingRule from rules[k] on.
RECURSIVE FirstMatchingRule(_, _, _)
FirstMatchingRule(desc, rules, k) ==
    IF k > Len(rules) THEN NoRule
    ELSE IF RuleMatches(rules[k], desc)
         THEN [keywords |-> rules[k].keywords, ledgerName |-> rules[k].ledgerName,
               voucherType |-> rules[k].voucherType, matched |-> TRUE]
    ELSE FirstMatchingRule(desc, rules, k + 1)

findMatchingRule_LastMatch(tx, rules) ==
    LastMatchingRule(toLowerCase(tx.description), rules, Len(rules))

\* findMatchingRule(tx, rules)
findMatchingRule(tx, rules) == FirstMatchingRule(toLowerCase(tx.description), rules, 1)

LedgerSides_Swapped(tx, counterpartyLedger, bankName) ==
    IF Positive(tx.debit)
    THEN [debitLedger |-> bankName, creditLedger |-> counterpartyLedger]
    ELSE [debitLedger |-> counterpartyLedger, creditLedger |-> bankName]

\* debitLedger and creditLedger of a voucher.
LedgerSides(tx, counterpartyLedger, bankName) ==
    IF Positive(tx.debit)
    THEN [debitLedger |-> counterpartyLedger, creditLedger |-> bankName]
    ELSE [debitLedger |-> bankName, creditLedger |-> counterpartyLedger]

\* generateVoucherXml(tx, options, voucherNumber): the text put at each place
\* of the voucher template, the ledger entries in the template's order.
generateVoucherXml(tx, options, voucherNumber) ==
    LET voucherType == getVoucherType(tx)
        matchedRule == findMatchingRule(tx, options.ledgerRules)
        counterpartyLedger == IF matchedRule.ledgerName # <<>>
                              THEN matchedRule.ledgerName ELSE options.suspenseLedger
        finalVoucherType == IF matchedRule.voucherType # <<>>
                            THEN matchedRule.voucherType ELSE voucherType
        amount == IF Positive(tx.debit) THEN tx.debit ELSE tx.credit
        narration == tx.description
                        \o (IF tx.reference # <<>>
                            THEN <<"_", "|", "_", "R", "e", "f", ":", "_">> \o tx.reference
                            ELSE <<>>)
        sides == LedgerSides(tx, counterpartyLedger, options.bankName)
    IN [ REMOTEID |-> escapeXml(tx.id),
         VCHTYPE |-> escapeXml(finalVoucherType),
         DATE |-> formatTallyDate(tx.date),
         VOUCHERTYPENAME |-> escapeXml(finalVoucherType),
         VOUCHERNUMBER |-> IntDigits(voucherNumber),
         NARRATION |-> escapeXml(narration),
         ALLLEDGERENTRIES |->
            << [ LEDGERNAME |-> escapeXml(sides.debitLedger),
                 ISDEEMEDPOSITIVE |-> <<"Y", "e", "s">>,
                 AMOUNT |-> <<"-">> \o toFixed2(amount) ],
               [ LEDGERNAME |-> escapeXml(sides.creditLedger),
                 ISDEEMEDPOSITIVE |-> <<"N", "o">>,
                 AMOUNT |-> toFixed2(amount) ] >> ]

\* fullOptions: an option left out (the empty text) is its default.
FullOptions(options) ==
    [ bankName |-> IF options.bankName # <<>> THEN options.bankName
                   ELSE <<"B", "a", "n", "k", "_", "A", "c", "c", "o", "u", "n", "t">>,
      companyName |-> IF options.companyName # <<>> THEN options.companyName
                      ELSE <<"M", "y", "_", "C", "o", "m", "p", "a", "n", "y">>,
      suspenseLedger |-> IF options.suspenseLedger # <<>> THEN options.suspenseLedger
                         ELSE <<"S", "u", "s", "p", "e", "n", "s", "e", "_", "-", "_", "B", "a", "n", "k", "_", "I", "m", "p", "o", "r", "t">>,
      ledgerRules |-> options.ledgerRules ]

\* generateTallyXml(transactions, options): the company name and the vouchers
\* of the envelope.
generateTallyXml(transactions, options) ==
    LET fullOptions == FullOptions(options)
    IN [ SVCURRENTCOMPANY |-> escapeXml(fullOptions.companyName),
         VOUCHERS |-> [k \in DOMAIN transactions |->
                          generateVoucherXml(transactions[k], fullOptions, k)] ]

\* The transactions generateTallyXml is evaluated on: descriptions of a salary
\* credit, of a self transfer, of a transfer, of a word holding "own", and one
\* of the characters XML reserves; money paid out or paid in; either a
\* normalized date and no reference, or a date parseDate could not read and a
\* reference; and a transaction with no amount.
VoucherDescriptions ==
    { <<"S", "A", "L", "A", "R", "Y", "_", "C", "R", "E", "D", "I", "T">>,
      <<"S", "e", "l", "f", "_", "T", "r", "a", "n", "s", "f", "e", "r">>,
      <<"F", "U", "N", "D", "_", "T", "R", "A", "N", "S", "F", "E", "R">>,
      <<"D", "O", "W", "N", "L", "O", "A", "D", "_", "F", "E", "E">>,
      <<"A", "_", "&", "_", "<", "B", ">", "_", "\"", "C", "\"", "_", "'", "D", "'">> }

NormalizedDate == <<"2", "0", "2", "4", "-", "0", "1", "-", "1", "5">>
UnreadDate == <<"<", "N", "A", ">">>

VoucherCandidates ==
    { [id |-> <<"t", "x", "1">>, date |-> dr[1], description |-> d, reference |-> dr[2],
       debit |-> a[1], credit |-> a[2]] :
        d \in VoucherDescriptions,
        a \in { <<Decimal(FALSE, 0, 0), Decimal(FALSE, 25000, 0)>>,
                <<Decimal(FALSE, 1005, 1), Decimal(FALSE, 0, 0)>> },
        dr \in { << NormalizedDate, <<>> >>,
                 << UnreadDate, <<"R", "&", "1">> >> } }
    \cup { [id |-> <<"t", "x", "1">>, date |-> NormalizedDate,
            description |-> <<"S", "A", "L", "A", "R", "Y", "_", "C", "R", "E", "D", "I", "T">>,
            reference |-> <<>>,
            debit |-> Decimal(FALSE, 0, 0), credit |-> Decimal(FALSE, 0, 0)] }

\* The ledger rules: one for salaries that names its voucher type, one whose
\* second keyword also occurs in a salary description and that names none.
SalaryRule ==
    [ keywords |-> << <<"s", "a", "l", "a", "r", "y">> >>,
      ledgerName |-> <<"S", "a", "l", "a", "r", "y", "_", "P", "a", "y", "a", "b", "l", "e">>,
      voucherType |-> VoucherContra ]
PayrollRule ==
    [ keywords |-> << <<"x", "y", "z">>, <<"S", "A", "L">> >>,
      ledgerName |-> <<"P", "a", "y", "r", "o", "l", "l", "_", "&", "_", "W", "a", "g", "e", "s">>,
      voucherType |-> <<>> ]

\* The options: the defaults or names holding reserved characters, with each
\* list of rules.
ExportOptionsPool ==
    { [ bankName |-> n[1], companyName |-> n[2], suspenseLedger |-> n[3],
        ledgerRules |-> rules ] :
        n \in { << <<>>, <<>>, <<>> >>,
                << <<"A", "&", "B", "_", "B", "a", "n", "k">>,
                   <<"C", "<", "o", ">">>,
                   <<"S", "u", "s", "p", "_", "\"", "X", "\"">> >> },
        rules \in { <<>>, <<SalaryRule>>, <<SalaryRule, PayrollRule>>,
                    <<PayrollRule, SalaryRule>> } }

\* ------------------------------------------------------------------ inputs

\* Replies of the extraction capability the handlers are driven with.
Responses ==
    { <<>>,                                                   \* empty reply
      <<"_">>,                                                \* white space only
      <<"w", "w">>,                                           \* plain prose
      <<"n">>,                                                \* the JSON value null
      <<"{", "T", "[", "]", "}">>,                            \* no transactions
      <<"{", "T", "[", "{", "D", "1", "}", "]", ",", "B", "s", "}">>,
                                                              \* one debit, bank name
      <<"w", "F", "_", "{", "B", "r", ",", "T", "[", "{", "}", ",", "{", "}", "]",
        "}", "_", "F">>,                                      \* two, fenced, bank name
      <<"{", "T", "[", "{", "}", ",", "{">>,                  \* truncated
      <<"{", "T", "[", "{", "}", ",", "n", "]", "}">>,        \* a null element
      <<"{", "T", "1", "}">> }                                \* transactions not a list

\* Messages of the errors the extraction capability throws.
ErrorMessages == { <<"429">>, <<"Quota">>, <<"rate_limit">>, <<"fetch failed">> }

\* What the runtime throws in the handlers themselves.
TypeErrorMsg == <<"TypeError">>
InvalidStateError == <<"Invalid state: Controller is already closed">>
LoadError == <<"Failed to parse PDF document">>

\* The reply the Groq branch substitutes for a chunk with no text.
EmptyChunkResponse == <<"{", "T", "_", "[", "]", "}">>

\* ------------------------------------------------------------------- state

VARIABLES
    request,       \* the submitted form and its surroundings: route, apiProvider,
                   \* hasFile, apiKey (a key was submitted), envKey (the provider's
                   \* environment key is set), totalPages, pdfLoads (whether
                   \* PDFDocument.load succeeds)
    pc,            \* where the handler is suspended
    http,          \* the HTTP response returned, status 0 while there is none
    stream,        \* the ReadableStream: "none", "open", "closed", "cancelled"
    aborted,       \* the caller has aborted the transport
    events,        \* the StreamEvents enqueued, in order
    chunks,        \* the result of splitPdfIntoChunks
    i,             \* the chunk loop's index (0-based)
    retries,       \* the retry counter of the current chunk
    chunkSuccess,  \* the success flag of the current chunk
    warnings,      \* the accumulated warnings
    bankName,      \* the detected bank name
    sleep,         \* the length (ms) of the timer the handler is waiting on
    inflight,      \* external extraction calls not yet returned
    chunkLog,      \* per chunk number: status, external calls made, errors caught
                   \* by kind, transactions found by the successful attempt, the
                   \* first bank name a reply for it held, the length (ms) of
                   \* the pacing timer that fired after it
    fn,            \* a library function under evaluation: its name, its argument
                   \* and, once it has returned, its result
    client         \* the page's reader of the event stream

vars == << request, pc, http, stream, aborted, events, chunks, i, retries,
           chunkSuccess, warnings, bankName, sleep, inflight, chunkLog, fn, client >>

\* No library function is under evaluation; no reader is attached.
NoCall == [name |-> "none", arg |-> <<>>, res |-> <<>>, returned |-> FALSE]
NoClient == [attached |-> FALSE]

\* The handler's own state as one record, so that straight-line code is a
\* composition of operators on it.
Local ==
    [ pc |-> pc, stream |-> stream, events |-> events, i |-> i, retries |-> retries,
      chunkSuccess |-> chunkSuccess, warnings |-> warnings, bankName |-> bankName,
      sleep |-> sleep, inflight |-> inflight, chunkLog |-> chunkLog ]

Apply(l) ==
    /\ pc' = l.pc
    /\ stream' = l.stream
    /\ events' = l.events
    /\ i' = l.i
    /\ retries' = l.retries
    /\ chunkSuccess' = l.chunkSuccess
    /\ warnings' = l.warnings
    /\ bankName' = l.bankName
    /\ sleep' = l.sleep
    /\ inflight' = l.inflight
    /\ chunkLog' = l.chunkLog

NoResponse == [status |-> 0, kind |-> "none", n |-> 0]

\* Whether effectiveApiKey is non-empty: the submitted key, or else the
\* environment key of the provider.
effectiveApiKey(r) == r.apiKey \/ r.envKey

\* ------------------------------------------------------------------ events

Progress(message, chunk, totalChunks) ==
    [type |-> "progress", message |-> message, chunk |-> chunk,
     totalChunks |-> totalChunks]
TransactionsEvent(data) == [type |-> "transactions", data |-> data]
CompleteEvent(w, b) == [type |-> "complete", warnings |-> w, bankName |-> b]
ErrorEvent(message) == [type |-> "error", message |-> message]

RATE_LIMIT_WAIT == 32000
GEMINI_DELAY == 2000
GROQ_DELAY == 5000

PagesPerChunk(apiProvider) ==
    IF apiProvider = "gemini" THEN GEMINI_PAGES_PER_CHUNK ELSE GROQ_PAGES_PER_CHUNK

PacingDelay(apiProvider) == IF apiProvider = "gemini" THEN GEMINI_DELAY ELSE GROQ_DELAY

Includes(msg, word) == \E k \in DOMAIN msg : msg[k] = word

\* The rate-limit signature the catch branch looks for in the error message.
IsRateLimit(msg) ==
    Includes(msg, "429") \/ Includes(msg, "Quota") \/ Includes(msg, "rate_limit")

\* ------------------------------------------------------- streaming handler

OuterCatch_NoErrorEvent(l, msg) ==
    IF l.stream = "open"
    THEN [l EXCEPT !.stream = "closed", !.pc = "done"]
    ELSE [l EXCEPT !.pc = "crashed"]

\* The catch of start(): the error event and close(); on a stream the caller has
\* cancelled, enqueue throws again and start() rejects.
OuterCatch(l, msg) ==
    IF l.stream = "open"
    THEN [l EXCEPT !.events = Append(@, ErrorEvent(msg)), !.stream = "closed",
                   !.pc = "done"]
    ELSE [l EXCEPT !.pc = "crashed"]

Bump(k) == IF k < LogMax THEN k + 1 ELSE k

\* The catch of the retry loop, for the chunk numbered l.i + 1.  origin says
\* where the error was thrown, for chunkLog: "gen" by the extraction call,
\* "bad" by the handling of its reply, "io" by enqueue.
Catch(l, msg, origin) ==
    LET c == l.i + 1
        n == Len(chunks)
        kind == IF IsRateLimit(msg) THEN "rl" ELSE origin
        l1 == [l EXCEPT !.retries = @ + 1,
                        !.chunkLog[c][kind] = Bump(@),
                        !.chunkLog[c].status =
                            IF l.chunkSuccess THEN @ ELSE "Retrying"]
    IN IF IsRateLimit(msg) THEN
           IF l1.stream = "open"
           THEN [l1 EXCEPT !.events = Append(@, Progress(<<"Rate limited", RATE_LIMIT_WAIT>>, c, n)),
                           !.sleep = RATE_LIMIT_WAIT,
                           !.pc = "backoff"]
           ELSE OuterCatch(l1, InvalidStateError)
       ELSE IF l1.retries > MAX_RETRIES THEN
           [l1 EXCEPT !.warnings = Append(@, [chunk |-> c, errorMsg |-> msg]),
                      !.chunkLog[c].status = IF l.chunkSuccess THEN @ ELSE "Skipped",
                      !.i = @ + 1,
                      !.pc = "for"]
       ELSE [l1 EXCEPT !.pc = "while"]

\* What the try block does with a parsed reply: property reads on it, building
\* the transactions, the transactions event, the success flag, the pacing wait.
TxArray(parsed) ==
    LET t == Get(parsed, "T") IN IF Truthy(t) THEN t ELSE JArr(<<>>)

\* String(tx.debit ?? tx.withdrawal ?? 0), String(tx.credit ?? tx.deposit ?? 0):
\* the text of the amount field v of a candidate, "0" when the candidate has
\* none.  The number the token alphabet denotes is written "1"; the text of any
\* other value is not a number.
AmountText(v) ==
    IF v.k \in {"null", "undefined"} THEN <<"0">>
    ELSE IF v.k = "num" THEN <<"1">>
    ELSE <<"x">>

MakeTransactions(l, txArray, bn) ==
    [j \in 1..Len(txArray.c) |->
        [id |-> << l.i + 1, l.retries, j >>,
         debit |-> parseAmount(StringArg(AmountText(Get(txArray.c[j], "D")))),
         credit |-> parseAmount(StringArg(AmountText(Get(txArray.c[j], "C")))),
         currency |-> "INR", bankName |-> bn]]

AfterSuccess_NoPacing(l) == [l EXCEPT !.pc = "while"]

\* The end of the try block after chunkSuccess = true: between chunks, the
\* waiting progress event and the pacing timer.
AfterSuccess(l) ==
    LET c == l.i + 1
        n == Len(chunks)
        delay == PacingDelay(request.apiProvider)
    IN IF l.i < n - 1 THEN
           IF l.stream = "open"
           THEN [l EXCEPT !.events = Append(@, Progress(<<"Waiting", delay>>, c, n)),
                          !.sleep = delay,
                          !.pc = "pacing"]
           ELSE Catch(l, InvalidStateError, "io")
       ELSE [l EXCEPT !.pc = "while"]

Emit(l, txs) ==
    LET c == l.i + 1 IN
    IF Len(txs) > 0 /\ l.stream # "open" THEN Catch(l, InvalidStateError, "io")
    ELSE AfterSuccess(
            [l EXCEPT !.events = IF Len(txs) > 0
                                 THEN Append(@, TransactionsEvent(txs)) ELSE @,
                      !.chunkSuccess = TRUE,
                      !.chunkLog[c].status = "Succeeded",
                      !.chunkLog[c].found = Len(txs)])

BankNameAfter_LastWins(current, parsed) ==
    IF Truthy(Get(parsed, "B")) THEN Get(parsed, "B") ELSE current

\* if (!bankName && parsed.bankName) bankName = parsed.bankName
BankNameAfter(current, parsed) ==
    IF ~Truthy(current) /\ Truthy(Get(parsed, "B")) THEN Get(parsed, "B") ELSE current

TryBody(l, responseText) ==
    LET parsed == parseAIResponse(responseText)
        bn == BankNameAfter(l.bankName, parsed)
        l1 == [l EXCEPT !.bankName = bn,
                        !.chunkLog[l.i + 1].bank = BankNameAfter(@, parsed)]
        txArray == TxArray(parsed)
    IN IF parsed.k = "null" THEN Catch(l, TypeErrorMsg, "bad")
       ELSE IF txArray.k # "arr" THEN Catch(l1, TypeErrorMsg, "bad")
       ELSE IF \E j \in DOMAIN txArray.c : txArray.c[j].k = "null"
            THEN Catch(l1, TypeErrorMsg, "bad")
       ELSE Emit(l1, MakeTransactions(l1, txArray, bn))

LoopCondition_IgnoresSuccess(l) == l.retries <= MAX_RETRIES

\* The condition of the retry loop.
LoopCondition(l) == ~l.chunkSuccess /\ l.retries <= MAX_RETRIES

NewChunkLog ==
    [status |-> "Pending", calls |-> 0, rl |-> 0, gen |-> 0, bad |-> 0, io |-> 0,
     found |-> 0, bank |-> Undefined, paced |-> 0]

\* The handler's variables, and their values before a request is taken up.
server == << request, pc, http, stream, aborted, events, chunks, i, retries,
             chunkSuccess, warnings, bankName, sleep, inflight, chunkLog >>

ServerStart ==
    /\ pc = "request"
    /\ http = NoResponse
    /\ stream = "none"
    /\ aborted = FALSE
    /\ events = <<>>
    /\ chunks = <<>>
    /\ i = 0
    /\ retries = 0
    /\ chunkSuccess = FALSE
    /\ warnings = <<>>
    /\ bankName = Undefined
    /\ sleep = 0
    /\ inflight = 0
    /\ chunkLog = <<>>

Init ==
    /\ request \in [ route : {"pdf", "image"}, apiProvider : {"gemini", "groq"},
                     hasFile : BOOLEAN, apiKey : BOOLEAN, envKey : BOOLEAN,
                     totalPages : 0..MaxPages, pdfLoads : BOOLEAN ]
    /\ request.route = "image" => request.totalPages = 0 /\ request.pdfLoads
    /\ ServerStart
    /\ fn = NoCall
    /\ client = NoClient

Request_NoKeyCheck ==
    /\ pc = "request"
    /\ request.route = "pdf"
    /\ IF ~request.hasFile
       THEN /\ http' = [status |-> 400, kind |-> "no-file", n |-> 0]
            /\ pc' = "responded"
            /\ UNCHANGED << stream, events >>
       ELSE /\ http' = [status |-> 200, kind |-> "stream", n |-> 0]
            /\ stream' = "open"
            /\ events' = << Progress(<<"Analyzing">>, 0, 0) >>
            /\ pc' = "splitting"
    /\ UNCHANGED << fn, client, request, aborted, chunks, i, retries, chunkSuccess,
                    warnings, bankName, sleep, inflight, chunkLog >>

\* POST of the parse-pdf route up to its return: the 400 replies, or the stream,
\* whose start() runs to its first await.
Request ==
    /\ pc = "request"
    /\ request.route = "pdf"
    /\ IF ~request.hasFile
       THEN /\ http' = [status |-> 400, kind |-> "no-file", n |-> 0]
            /\ pc' = "responded"
            /\ UNCHANGED << stream, events >>
       ELSE IF ~effectiveApiKey(request)
       THEN /\ http' = [status |-> 400, kind |-> "no-key", n |-> 0]
            /\ pc' = "responded"
            /\ UNCHANGED << stream, events >>
       ELSE /\ http' = [status |-> 200, kind |-> "stream", n |-> 0]
            /\ stream' = "open"
            /\ events' = << Progress(<<"Analyzing">>, 0, 0) >>
            /\ pc' = "splitting"
    /\ UNCHANGED << fn, client, request, aborted, chunks, i, retries, chunkSuccess,
                    warnings, bankName, sleep, inflight, chunkLog >>

\* splitPdfIntoChunks returns or throws; the second progress event.
SplitReturns ==
    /\ pc = "splitting"
    /\ IF request.pdfLoads
       THEN LET cs == splitPdfIntoChunks(request.totalPages,
                                         PagesPerChunk(request.apiProvider))
                l == [Local EXCEPT !.chunkLog = [c \in 1..Len(cs) |-> NewChunkLog]]
            IN /\ chunks' = cs
               /\ IF stream = "open"
                  THEN Apply([l EXCEPT !.events = Append(@, Progress(<<"Split">>, 0, Len(cs))),
                                       !.i = 0,
                                       !.pc = "for"])
                  ELSE Apply(OuterCatch(l, InvalidStateError))
       ELSE /\ Apply(OuterCatch(Local, LoadError))
            /\ UNCHANGED chunks
    /\ UNCHANGED << fn, client, request, http, aborted >>

\* The head of the chunk loop with a chunk left: its progress event.
StartChunk ==
    /\ pc = "for"
    /\ i < Len(chunks)
    /\ LET l == [Local EXCEPT !.chunkSuccess = FALSE, !.retries = 0] IN
       IF stream = "open"
       THEN Apply([l EXCEPT !.events = Append(@, Progress(<<"Processing">>, i + 1, Len(chunks))),
                            !.pc = "while"])
       ELSE Apply(OuterCatch(Local, InvalidStateError))
    /\ UNCHANGED << fn, client, request, http, aborted, chunks >>

Complete_NoClose ==
    /\ pc = "for"
    /\ ~(i < Len(chunks))
    /\ stream = "open"
    /\ Apply([Local EXCEPT !.events = Append(@, CompleteEvent(warnings, bankName)),
                            !.pc = "done"])
    /\ UNCHANGED << fn, client, request, http, aborted, chunks >>

\* After the chunk loop: the complete event and close().
Complete ==
    /\ pc = "for"
    /\ ~(i < Len(chunks))
    /\ IF stream = "open"
       THEN Apply([Local EXCEPT !.events = Append(@, CompleteEvent(warnings, bankName)),
                                !.stream = "closed",
                                !.pc = "done"])
       ELSE Apply(OuterCatch(Local, InvalidStateError))
    /\ UNCHANGED << fn, client, request, http, aborted, chunks >>

Dispatch_NoAwait ==
    /\ pc = "while"
    /\ LoopCondition(Local)
    /\ Apply([Local EXCEPT !.inflight = @ + 1,
                           !.chunkLog[i + 1].calls = Bump(@),
                           !.chunkLog[i + 1].status = "Dispatched",
                           !.i = @ + 1,
                           !.pc = "for"])
    /\ UNCHANGED << fn, client, request, http, aborted, chunks >>

\* A turn of the retry loop that calls the extraction capability: with the
\* chunk itself (Gemini), or with the text extractPdfText found in it (Groq).
Dispatch ==
    /\ pc = "while"
    /\ LoopCondition(Local)
    /\ Apply([Local EXCEPT !.inflight = @ + 1,
                           !.chunkLog[i + 1].calls = Bump(@),
                           !.chunkLog[i + 1].status = "Dispatched",
                           !.pc = "calling"])
    /\ UNCHANGED << fn, client, request, http, aborted, chunks >>

\* A turn of the retry loop on a Groq chunk in which extractPdfText finds under
\* 20 characters: no call, a fixed reply.
EmptyChunk ==
    /\ pc = "while"
    /\ LoopCondition(Local)
    /\ request.apiProvider # "gemini"
    /\ Apply(TryBody(Local, EmptyChunkResponse))
    /\ UNCHANGED << fn, client, request, http, aborted, chunks >>

\* The retry loop ends without a break.
ExitWhile ==
    /\ pc = "while"
    /\ ~LoopCondition(Local)
    /\ Apply([Local EXCEPT !.chunkLog[i + 1].status =
                               IF chunkSuccess THEN @ ELSE "Skipped",
                           !.i = @ + 1,
                           !.pc = "for"])
    /\ UNCHANGED << fn, client, request, http, aborted, chunks >>

\* The extraction call returns a reply: the rest of the try block.
CallReturns ==
    /\ pc = "calling"
    /\ \E r \in Responses : Apply(TryBody([Local EXCEPT !.inflight = @ - 1], r))
    /\ UNCHANGED << fn, client, request, http, aborted, chunks >>

CallThrows_CountsRateLimitsOnly ==
    /\ pc = "calling"
    /\ \E m \in ErrorMessages :
          LET l == Catch([Local EXCEPT !.inflight = @ - 1], m, "gen") IN
          Apply(IF IsRateLimit(m) THEN l ELSE [l EXCEPT !.retries = retries])
    /\ UNCHANGED << fn, client, request, http, aborted, chunks >>

\* The extraction call throws.
CallThrows ==
    /\ pc = "calling"
    /\ \E m \in ErrorMessages : Apply(Catch([Local EXCEPT !.inflight = @ - 1], m, "gen"))
    /\ UNCHANGED << fn, client, request, http, aborted, chunks >>

\* The pacing timer fires: the try block ends.
PacingElapses ==
    /\ pc = "pacing"
    /\ Apply([Local EXCEPT !.sleep = 0, !.chunkLog[i + 1].paced = sleep,
                           !.pc = "while"])
    /\ UNCHANGED << fn, client, request, http, aborted, chunks >>

BackoffElapses_ForgetsRetry ==
    /\ pc = "backoff"
    /\ Apply([Local EXCEPT !.sleep = 0, !.retries = @ - 1, !.pc = "while"])
    /\ UNCHANGED << fn, client, request, http, aborted, chunks >>

\* The rate-limit timer fires: continue.
BackoffElapses ==
    /\ pc = "backoff"
    /\ Apply([Local EXCEPT !.sleep = 0, !.pc = "while"])
    /\ UNCHANGED << fn, client, request, http, aborted, chunks >>

\* The caller aborts the transport.  The handler registers no cancel callback
\* and reads no abort signal; the runtime may cancel the response stream, after
\* which enqueue and close throw.
Abort ==
    /\ stream = "open"
    /\ ~aborted
    /\ aborted' = TRUE
    /\ stream' \in {"open", "cancelled"}
    /\ UNCHANGED << fn, client, request, pc, http, events, chunks, i, retries,
                    chunkSuccess, warnings, bankName, sleep, inflight, chunkLog >>

\* ----------------------------------------------------------- image handler

\* POST of the parse-image route up to its extraction call.
ImageRequest ==
    /\ pc = "request"
    /\ request.route = "image"
    /\ IF ~request.hasFile
       THEN /\ http' = [status |-> 400, kind |-> "no-file", n |-> 0]
            /\ pc' = "responded"
            /\ UNCHANGED inflight
       ELSE IF ~effectiveApiKey(request)
       THEN /\ http' = [status |-> 400, kind |-> "no-key", n |-> 0]
            /\ pc' = "responded"
            /\ UNCHANGED inflight
       ELSE /\ pc' = "imgcalling"
            /\ inflight' = inflight + 1
            /\ UNCHANGED http
    /\ UNCHANGED << fn, client, request, stream, aborted, events, chunks, i, retries,
                    chunkSuccess, warnings, bankName, sleep, chunkLog >>

\* The reply to an extraction call that threw.
ImageErrorReply(apiProvider, msg) ==
    IF apiProvider = "gemini" THEN
        IF Includes(msg, "429")
        THEN [status |-> 429, kind |-> "rate-limit", n |-> 0]
        ELSE [status |-> 500, kind |-> "failed-call", n |-> 0]
    ELSE [status |-> 400, kind |-> "groq-failed", n |-> 0]

\* The reply to an extraction call that returned responseText: 500 "AI returned
\* invalid format" when parseAIResponse throws, 500 "Failed to process image"
\* when reading the parsed value throws, the result otherwise.
ImageReply(responseText) ==
    LET p == parseAIResponseImage(responseText)
        txArray == TxArray(p.val)
    IN IF p.threw THEN [status |-> 500, kind |-> "invalid-format", n |-> 0]
       ELSE IF p.val.k = "null" THEN [status |-> 500, kind |-> "failed-reply", n |-> 0]
       ELSE IF txArray.k # "arr" THEN [status |-> 500, kind |-> "failed-reply", n |-> 0]
       ELSE IF \E j \in DOMAIN txArray.c : txArray.c[j].k = "null"
            THEN [status |-> 500, kind |-> "failed-reply", n |-> 0]
       ELSE [status |-> 200, kind |-> "result", n |-> Len(txArray.c)]

ImageCallReturns ==
    /\ pc = "imgcalling"
    /\ \E r \in Responses : http' = ImageReply(r)
    /\ inflight' = inflight - 1
    /\ pc' = "responded"
    /\ UNCHANGED << fn, client, request, stream, aborted, events, chunks, i, retries,
                    chunkSuccess, warnings, bankName, sleep, chunkLog >>

ImageCallThrows ==
    /\ pc = "imgcalling"
    /\ \E m \in ErrorMessages : http' = ImageErrorReply(request.apiProvider, m)
    /\ inflight' = inflight - 1
    /\ pc' = "responded"
    /\ UNCHANGED << fn, client, request, stream, aborted, events, chunks, i, retries,
                    chunkSuccess, warnings, bankName, sleep, chunkLog >>

\* ------------------------------------------------------------ specification

\* Every step of the handlers themselves.
Step ==
    \/ Request
    \/ SplitReturns
    \/ StartChunk
    \/ Complete
    \/ Dispatch
    \/ EmptyChunk
    \/ ExitWhile
    \/ CallReturns
    \/ CallThrows
    \/ PacingElapses
    \/ BackoffElapses
    \/ ImageRequest
    \/ ImageCallReturns
    \/ ImageCallThrows

Next == Step \/ Abort

Spec == Init /\ [][Next]_vars

\* The caller never aborts, every extraction call and every timer eventually
\* returns, and the handler runs whenever it can.
FairSpec == Init /\ [][Step]_vars /\ WF_vars(Step)

\* ------------------------------------------------------- library functions

\* No request is being served.
NoRequest ==
    [ route |-> "none", apiProvider |-> "gemini", hasFile |-> FALSE, apiKey |-> FALSE,
      envKey |-> FALSE,
      totalPages |-> 0, pdfLoads |-> TRUE ]

\* A call of the function called name with argument arg, not yet returned.
Call(name, arg) == [name |-> name, arg |-> arg, res |-> <<>>, returned |-> FALSE]

\* The tokens of the texts parseAIResponse is evaluated on, and the texts: every
\* text of up to MaxTextLen of these tokens, and the replies of the handlers.
TextTokens == {"{", "}", "[", "]", "T", "1", "n", "w", "_", "F"}
Texts == SeqsUpTo(TextTokens, MaxTextLen) \cup Responses \cup {EmptyChunkResponse}

FnInit ==
    /\ request = NoRequest
    /\ ServerStart
    /\ client = NoClient
    /\ \/ fn \in { Call("parseAIResponse", t) : t \in Texts }
       \/ fn \in { Call("splitPdfIntoChunks", [totalPages |-> n, pagesPerChunk |-> k]) :
                       n \in 0..MaxSplitPages, k \in 1..MaxChunkSize }
       \/ fn \in { Call("parseDate", t) : t \in DateTexts }
       \/ fn \in { Call("parseAmount", a) : a \in AmountTexts }
       \/ fn \in { Call("parseAmount", a) : a \in AmountNumbers }
       \/ fn \in { Call("determineDebitCredit", [amountStr |-> a, typeHint |-> h]) :
                       a \in HintedAmountTexts, h \in HintTexts }
       \/ fn \in { Call("determineDebitCredit", [amountStr |-> a, typeHint |-> h]) :
                       a \in HintedAmountNumbers, h \in HintTexts }
       \/ fn \in { Call("findDuplicates", WithIds(txs)) :
                       txs \in SeqsUpTo(DuplicateCandidates, MaxTransactions) }
       \/ fn \in { Call("generateTallyXml", [transactions |-> txs, options |-> o]) :
                       txs \in SeqsUpTo(VoucherCandidates, MaxVouchers),
                       o \in ExportOptionsPool }

\* parseAIResponse(responseText) returns.
Call_parseAIResponse ==
    /\ fn.name = "parseAIResponse"
    /\ ~fn.returned
    /\ fn' = [fn EXCEPT !.res = parseAIResponse(fn.arg), !.returned = TRUE]
    /\ UNCHANGED << server, client >>

\* splitPdfIntoChunks(buffer, pagesPerChunk) returns, for a buffer that loads.
Call_splitPdfIntoChunks ==
    /\ fn.name = "splitPdfIntoChunks"
    /\ ~fn.returned
    /\ fn' = [fn EXCEPT !.res = splitPdfIntoChunks(fn.arg.totalPages, fn.arg.pagesPerChunk),
                         !.returned = TRUE]
    /\ UNCHANGED << server, client >>

\* parseDate(dateStr) returns.  The Date constructor is consulted only when no
\* pattern matches.
Call_parseDate ==
    /\ fn.name = "parseDate"
    /\ ~fn.returned
    /\ \E dateObject \in DateObjects :
          /\ DateForm(fn.arg) # "other" => dateObject = InvalidDate
          /\ fn' = [fn EXCEPT !.res = parseDate(fn.arg, dateObject), !.returned = TRUE]
    /\ UNCHANGED << server, client >>

\* parseAmount(amountStr) returns.
Call_parseAmount ==
    /\ fn.name = "parseAmount"
    /\ ~fn.returned
    /\ fn' = [fn EXCEPT !.res = parseAmount(fn.arg), !.returned = TRUE]
    /\ UNCHANGED << server, client >>

\* determineDebitCredit(amountStr, typeHint) returns.
Call_determineDebitCredit ==
    /\ fn.name = "determineDebitCredit"
    /\ ~fn.returned
    /\ fn' = [fn EXCEPT !.res = determineDebitCredit(fn.arg.amountStr, fn.arg.typeHint),
                         !.returned = TRUE]
    /\ UNCHANGED << server, client >>

\* findDuplicates(transactions) returns.
Call_findDuplicates ==
    /\ fn.name = "findDuplicates"
    /\ ~fn.returned
    /\ fn' = [fn EXCEPT !.res = findDuplicates(fn.arg), !.returned = TRUE]
    /\ UNCHANGED << server, client >>

\* generateTallyXml(transactions, options) returns.
Call_generateTallyXml ==
    /\ fn.name = "generateTallyXml"
    /\ ~fn.returned
    /\ fn' = [fn EXCEPT !.res = generateTallyXml(fn.arg.transactions, fn.arg.options),
                         !.returned = TRUE]
    /\ UNCHANGED << server, client >>

FnNext ==
    \/ Call_parseAIResponse
    \/ Call_splitPdfIntoChunks
    \/ Call_parseDate
    \/ Call_parseAmount
    \/ Call_determineDebitCredit
    \/ Call_findDuplicates
    \/ Call_generateTallyXml

\* Each library function applied to each of its inputs.
FnSpec == FnInit /\ [][FnNext]_vars

\* ------------------------------------------------------ the page's reader

\* The bytes of an event stream, one token each: "{" and "}" open and close an
\* event's JSON text, "p" "t" "c" "e" are its type (progress, transactions,
\* complete, error), "a" and "b" are transactions of its data, "_" is white
\* space and "NL" the line feed.
TxBytes == {"a", "b"}
TypeOfByte == [p |-> "progress", t |-> "transactions", c |-> "complete", e |-> "error"]
ByteOfType == [progress |-> "p", transactions |-> "t", complete |-> "c", error |-> "e"]

StreamEvt(type, data) == [type |-> type, data |-> data]

\* encodeEvent: JSON.stringify(event) and a line feed.
encodeEvent(event) == <<"{", ByteOfType[event.type]>> \o event.data \o <<"}", "NL">>

\* JSON.parse(line) in the reader: the event, when the line is the JSON text of
\* one, possibly inside white space.
ParseLine(line) ==
    LET t == Trim(line)
        n == Len(t)
    IN IF /\ n >= 3
          /\ t[1] = "{"
          /\ t[n] = "}"
          /\ t[2] \in DOMAIN TypeOfByte
          /\ \A k \in 3..(n - 1) : t[k] \in TxBytes
          /\ (t[2] # "t" => n = 3)
       THEN [ok |-> TRUE, event |-> StreamEvt(TypeOfByte[t[2]], SubSeq(t, 3, n - 1))]
       ELSE [ok |-> FALSE, event |-> StreamEvt("none", <<>>)]

\* buffer.split(line feed): the pieces between the line feeds, the last of them
\* the text after the last line feed.
RECURSIVE SplitLines(_, _, _)
SplitLines(text, piece, acc) ==
    IF text = <<>> THEN Append(acc, piece)
    ELSE IF Head(text) = "NL" THEN SplitLines(Tail(text), <<>>, Append(acc, piece))
    ELSE SplitLines(Tail(text), Append(piece, Head(text)), acc)

\* The body of the loop over the lines: a blank line is passed over; a line that
\* does not parse, and an error event, end in the catch, which logs.
ProcessLine(c, line) ==
    LET parsed == ParseLine(line)
        event == parsed.event
    IN IF Trim(line) = <<>> THEN c
       ELSE IF ~parsed.ok THEN [c EXCEPT !.logged = @ + 1]
       ELSE IF event.type = "progress"
            THEN [c EXCEPT !.handled = Append(@, event), !.statusSet = TRUE]
       ELSE IF event.type = "transactions"
            THEN [c EXCEPT !.handled = Append(@, event),
                           !.transactions = @ \o event.data]
       ELSE IF event.type = "complete"
            THEN [c EXCEPT !.handled = Append(@, event), !.warningsSet = TRUE]
       ELSE [c EXCEPT !.handled = Append(@, event), !.logged = @ + 1]

RECURSIVE ProcessLines(_, _)
ProcessLines(c, lines) ==
    IF lines = <<>> THEN c
    ELSE ProcessLines(ProcessLine(c, Head(lines)), Tail(lines))

ProcessValue_NoCarry(c, value) ==
    LET pieces == SplitLines(c.buffer \o value, <<>>, <<>>)
        lines == SubSeq(pieces, 1, Len(pieces) - 1)
    IN ProcessLines([c EXCEPT !.buffer = <<>>], lines)

\* One turn of the read loop on the bytes of one read: the buffer grows by them,
\* its complete lines are processed, its last piece is kept.
ProcessValue(c, value) ==
    LET pieces == SplitLines(c.buffer \o value, <<>>, <<>>)
        lines == SubSeq(pieces, 1, Len(pieces) - 1)
    IN ProcessLines([c EXCEPT !.buffer = pieces[Len(pieces)]], lines)

\* The lines a stream is made of: the events' lines, a line cut short, a blank
\* line.
StreamLines ==
    { encodeEvent(StreamEvt("progress", <<>>)),
      encodeEvent(StreamEvt("transactions", <<"a">>)),
      encodeEvent(StreamEvt("transactions", <<"b", "a">>)),
      encodeEvent(StreamEvt("complete", <<>>)),
      encodeEvent(StreamEvt("error", <<>>)),
      <<"{", "t", "a", "NL">>,
      <<"_", "NL">> }

RECURSIVE Concat(_)
Concat(seqs) == IF seqs = <<>> THEN <<>> ELSE Head(seqs) \o Concat(Tail(seqs))

\* The reader after handleProcess has reset the page and fetch has answered
\* with a body made of the given lines.
NewClient(lines) ==
    [ attached |-> TRUE, lines |-> lines, pending |-> Concat(lines), buffer |-> <<>>,
      transactions |-> <<>>, handled |-> <<>>, logged |-> 0, statusSet |-> FALSE,
      warningsSet |-> FALSE, isLoading |-> TRUE, error |-> "null", delivered |-> 0,
      carried |-> FALSE ]

ClientInit ==
    /\ request = NoRequest
    /\ ServerStart
    /\ fn = NoCall
    /\ client \in { NewClient(ls) : ls \in SeqsUpTo(StreamLines, MaxLines) }

\* reader.read() returns the next bytes of the body, however many.
ReadValue ==
    /\ client.attached
    /\ client.isLoading
    /\ \E k \in 1..Len(client.pending) :
          LET value == SubSeq(client.pending, 1, k)
              c == ProcessValue(client, value)
          IN client' = [c EXCEPT !.pending = SubSeq(@, k + 1, Len(@)),
                                  !.delivered = @ + k,
                                  !.carried = @ \/ c.buffer # <<>>]
    /\ UNCHANGED << server, fn >>

\* reader.read() returns done: the loop ends.
ReadDone ==
    /\ client.attached
    /\ client.isLoading
    /\ client.pending = <<>>
    /\ client' = [client EXCEPT !.isLoading = FALSE]
    /\ UNCHANGED << server, fn >>

\* reader.read() rejects (the body errored, the connection dropped): the catch
\* of handleProcess sets the page's error to the rejection's message and ends
\* loading.
ReadFails ==
    /\ client.attached
    /\ client.isLoading
    /\ client' = [client EXCEPT !.error = "read failed", !.isLoading = FALSE]
    /\ UNCHANGED << server, fn >>

ClientNext ==
    \/ ReadValue
    \/ ReadDone
    \/ ReadFails

ClientSpec == ClientInit /\ [][ClientNext]_vars

\* ------------------------------------------------------------ observations

ChunkNumbers == DOMAIN chunkLog

Terminal(e) == e.type \in {"complete", "error"}
TerminalEvents == {k \in DOMAIN events : Terminal(events[k])}

\* The positions of the transactions events holding a transaction of chunk c.
TxEventsOf(c) ==
    {k \in DOMAIN events :
        /\ events[k].type = "transactions"
        /\ \E j \in DOMAIN events[k].data : events[k].data[j].id[1] = c}

WarningsOf(c) == {k \in DOMAIN warnings : warnings[k].chunk = c}

Ended(c) == chunkLog[c].status \in {"Succeeded", "Skipped"}

\* Every error caught for chunk c was thrown by the extraction call and was no
\* rate-limit error.
OnlyGenericFailures(c) ==
    chunkLog[c].rl = 0 /\ chunkLog[c].bad = 0 /\ chunkLog[c].io = 0

\* Every error caught for chunk c was a rate-limit error.
OnlyRateLimitFailures(c) ==
    chunkLog[c].rl > 0 /\ chunkLog[c].gen = 0 /\ chunkLog[c].bad = 0
        /\ chunkLog[c].io = 0

CompleteEmitted == \E k \in DOMAIN events : events[k].type = "complete"

\* ------------------------------------------------------------------ claims

\* C1: a chunk whose dispatches fail with rate-limit errors is re-dispatched after
\* each of them, the rate-limit errors do not consume the retry budget, and so
\* the chunk is never skipped because of rate-limit errors.
C1_RateLimitNeverSkips ==
    \A c \in ChunkNumbers : OnlyRateLimitFailures(c) => chunkLog[c].status # "Skipped"

\* C2: a chunk whose dispatches fail only with non-rate-limit errors is dispatched
\* at most 3 times; when an attempt succeeds its transactions are emitted and no
\* warning is recorded for it; after the third failure it is skipped, with its
\* warning, and the loop has moved past it.
C2_GenericRetryBudget ==
    \A c \in ChunkNumbers : OnlyGenericFailures(c) =>
        /\ chunkLog[c].calls <= 3
        /\ chunkLog[c].gen <= 3
        /\ chunkLog[c].status = "Succeeded" =>
              /\ WarningsOf(c) = {}
              /\ chunkLog[c].found > 0 => TxEventsOf(c) # {}
        /\ chunkLog[c].gen = 3 <=> chunkLog[c].status = "Skipped"
        /\ chunkLog[c].status = "Skipped" =>
              /\ Cardinality(WarningsOf(c)) = 1
              /\ i >= c

\* C2's case: with two chunks, one failed twice and succeeded on its third
\* dispatch, the other failed three times and was skipped, and the stream is done.
C2_Witness ==
    /\ pc = "done"
    /\ \E c \in ChunkNumbers :
          /\ OnlyGenericFailures(c)
          /\ chunkLog[c].gen = 2 /\ chunkLog[c].calls = 3
          /\ chunkLog[c].status = "Succeeded" /\ chunkLog[c].found > 0
    /\ \E c \in ChunkNumbers :
          /\ OnlyGenericFailures(c)
          /\ chunkLog[c].gen = 3 /\ chunkLog[c].status = "Skipped"

\* C3: when the complete event is emitted, the warnings hold exactly one warning
\* for each chunk that ended without succeeding, naming its number, and none for a
\* chunk that succeeded.
C3_WarningPerFailedChunk ==
    CompleteEmitted =>
        \A c \in ChunkNumbers :
            Cardinality(WarningsOf(c)) =
                IF chunkLog[c].status = "Succeeded" THEN 0 ELSE 1

\* C4: the stream holds exactly one transactions event for a chunk that was
\* processed successfully with at least one transaction and none for any other
\* chunk; an event holds the transactions of one chunk only, and is never empty.
C4_OneTransactionsEventPerChunk ==
    /\ \A c \in ChunkNumbers :
          Cardinality(TxEventsOf(c)) =
              IF chunkLog[c].status = "Succeeded" /\ chunkLog[c].found > 0
              THEN 1 ELSE 0
    /\ \A k \in DOMAIN events : events[k].type = "transactions" =>
          /\ Len(events[k].data) > 0
          /\ \A j \in DOMAIN events[k].data :
                /\ events[k].data[j].id[1] = events[k].data[1].id[1]
                /\ events[k].data[j].id[1] \in ChunkNumbers
                /\ Len(events[k].data) = chunkLog[events[k].data[j].id[1]].found

\* C4's case: a chunk re-dispatched after a quota error and after a generic error
\* has emitted its transactions, once, and the stream is done.
C4_Witness ==
    /\ pc = "done"
    /\ \E c \in ChunkNumbers :
          /\ chunkLog[c].rl > 0 /\ chunkLog[c].gen > 0
          /\ chunkLog[c].status = "Succeeded"
          /\ Cardinality(TxEventsOf(c)) = 1

\* C5: chunks are processed one after the other in page order: a chunk is
\* dispatched only when every chunk before it has ended, at most one extraction
\* call is in flight, and the transactions events are in increasing chunk order.
C5_Sequential ==
    /\ inflight <= 1
    /\ \A c \in ChunkNumbers : chunkLog[c].status # "Pending" =>
          \A d \in ChunkNumbers : d < c => Ended(d)
    /\ pc = "calling" => inflight = 1 /\ chunkLog[i + 1].status = "Dispatched"
    /\ \A k1, k2 \in DOMAIN events :
          ( /\ k1 < k2
            /\ events[k1].type = "transactions"
            /\ events[k2].type = "transactions" )
          => events[k1].data[1].id[1] < events[k2].data[1].id[1]

\* C5's case: the second chunk's call is in flight after the first chunk has
\* emitted its transactions.
C5_Witness ==
    /\ pc = "calling"
    /\ i = 1
    /\ TxEventsOf(1) # {}

\* C6: a stream holds at most one terminal event (complete or error), nothing
\* follows it, the stream is closed with it, and a stream whose handler has ended
\* holds exactly one.
C6_OneTerminalEvent ==
    /\ Cardinality(TerminalEvents) <= 1
    /\ \A k \in TerminalEvents : k = Len(events)
    /\ TerminalEvents # {} <=> stream = "closed"
    /\ pc = "done" <=> stream = "closed"

\* C6's case: a stream of two chunks ended by its complete event.
C6_Witness ==
    /\ pc = "done"
    /\ Len(chunks) = 2
    /\ events[Len(events)].type = "complete"

\* The handler has ended: with an HTTP reply and no stream, or with a closed
\* stream whose last event is terminal and whose chunks have all ended.
Finished ==
    \/ pc = "responded"
    \/ /\ pc = "done"
       /\ stream = "closed"
       /\ Terminal(events[Len(events)])
       /\ \A c \in ChunkNumbers : Ended(c)

\* C7: when every extraction call and every timer returns, every chunk ends
\* (Succeeded or Skipped) and the stream emits its terminal event and closes.
C7_Terminates == <>Finished

\* C7's case: a stream is done although its first chunk kept failing; the second
\* chunk was processed after it.
C7_Witness ==
    /\ Finished
    /\ Len(chunks) = 2
    /\ chunkLog[1].status = "Skipped"
    /\ chunkLog[2].status = "Succeeded"

\* C8: once the caller has aborted, no further extraction call is dispatched.
C8_NoDispatchAfterAbort == [][aborted => inflight' <= inflight]_vars

\* C9: when loading or splitting the document throws, the stream is the first
\* progress event followed by one error event, and is closed; there is no
\* extraction call and no transactions or complete event.
C9_SetupFailure ==
    (stream # "none" /\ ~request.pdfLoads) =>
        /\ inflight = 0
        /\ chunkLog = <<>>
        /\ \A k \in DOMAIN events : events[k].type \in {"progress", "error"}
        /\ pc = "done" =>
              /\ events = << Progress(<<"Analyzing">>, 0, 0), ErrorEvent(LoadError) >>
              /\ stream = "closed"
        /\ pc \in {"splitting", "done", "crashed"}

\* C9's case: the document could not be loaded and the stream is done.
C9_Witness == pc = "done" /\ ~request.pdfLoads

\* C10: a malformed or unparseable reply is absorbed as zero transactions: in the
\* stream the handling of a reply never throws (no retry, warning or error comes
\* of it), and the image handler answers no reply with an error.
C10_MalformedAbsorbed ==
    /\ \A c \in ChunkNumbers : chunkLog[c].bad = 0
    /\ http.kind \notin {"invalid-format", "failed-reply"}

\* The text holds a complete JSON value equal to v: v is parsed from the text, not
\* made up.
ParsedFrom(text, v) ==
    \E a, b \in 1..Len(text) :
        a <= b /\ JSONparse(SubSeq(text, a, b)) = [ok |-> TRUE, val |-> v, next |-> Len(StripWs(SubSeq(text, a, b))) + 1]

\* C11: on every text the recoverer of the PDF route returns a result object:
\* the explicit empty result, or a candidate object fully parsed from the text
\* (an object of the text, or a list of the text as its transactions).
C11_RecoveryReturnsObject ==
    (fn.name = "parseAIResponse" /\ fn.returned) =>
        /\ fn.res.k = "obj"
        /\ \/ fn.res = EmptyResult
           \/ ParsedFrom(fn.arg, fn.res)
           \/ /\ Len(fn.res.c) = 1
              /\ fn.res.c[1].key = "T"
              /\ fn.res.c[1].val.k = "arr"
              /\ ParsedFrom(fn.arg, fn.res.c[1].val)

\* C13: a request with no file, or with neither a submitted key nor the
\* provider's environment key, is answered 400 and nothing else happens: no
\* stream, no event, no split, no extraction call.
C13_FailFast ==
    (request.route # "none" /\ (~request.hasFile \/ ~(request.apiKey \/ request.envKey))) =>
        /\ pc \in {"request", "responded"}
        /\ pc = "responded" =>
              /\ http.status = 400
              /\ http.kind = IF ~request.hasFile THEN "no-file" ELSE "no-key"
        /\ stream = "none"
        /\ events = <<>>
        /\ chunks = <<>>
        /\ chunkLog = <<>>
        /\ inflight = 0

\* C13's case: a PDF submitted with no key at all has been answered.
C13_Witness ==
    /\ request.route = "pdf"
    /\ request.hasFile
    /\ ~request.apiKey /\ ~request.envKey
    /\ pc = "responded"
    /\ http.status = 400

\* The first bank name a reply held, in processing order; undefined when no reply
\* held one.
FirstBankName ==
    LET named == {c \in ChunkNumbers : Truthy(chunkLog[c].bank)} IN
    IF named = {} THEN Undefined
    ELSE chunkLog[CHOOSE c \in named : \A d \in named : c <= d].bank

\* C14: the bank name is the first non-empty bankName a reply held, in processing
\* order; no later reply changes it; the complete event reports it, or none when
\* no reply held one.
C14_FirstBankNameWins ==
    /\ bankName = FirstBankName
    /\ \A k \in DOMAIN events : events[k].type = "complete" =>
          events[k].bankName = FirstBankName

\* C14's case: the complete event of a document whose two chunks reported
\* different bank names.
C14_Witness ==
    /\ CompleteEmitted
    /\ Len(chunks) = 2
    /\ chunkLog[1].bank = JStr("s")
    /\ chunkLog[2].bank = JStr("r")

\* The lines of the body that have been delivered whole, line feed included.
RECURSIVE WholeLines(_, _)
WholeLines(lines, delivered) ==
    IF lines = <<>> \/ Len(Head(lines)) > delivered THEN <<>>
    ELSE <<Head(lines)>> \o WholeLines(Tail(lines), delivered - Len(Head(lines)))

\* The events of the lines that are the JSON text of one, in order.
RECURSIVE EventsOf(_)
EventsOf(lines) ==
    IF lines = <<>> THEN <<>>
    ELSE LET p == ParseLine(SubSeq(Head(lines), 1, Len(Head(lines)) - 1)) IN
         (IF p.ok THEN <<p.event>> ELSE <<>>) \o EventsOf(Tail(lines))

\* The data of the transactions events among the given events, concatenated.
RECURSIVE DataOf(_)
DataOf(evts) ==
    IF evts = <<>> THEN <<>>
    ELSE (IF Head(evts).type = "transactions" THEN Head(evts).data ELSE <<>>)
            \o DataOf(Tail(evts))

\* C15: however the body is cut into reads, the reader has handled exactly the
\* events of the lines delivered whole so far, in order, lines that are no JSON
\* being passed over; its transaction list is the concatenation of the data of
\* their transactions events; the rest of the bytes delivered waits in the buffer;
\* and when the loop has ended on the end of the body every line has been handled.
C15_LinesReassembled ==
    client.attached =>
        LET whole == WholeLines(client.lines, client.delivered)
            body == Concat(client.lines)
        IN /\ client.handled = EventsOf(whole)
           /\ client.transactions = DataOf(EventsOf(whole))
           /\ client.buffer = SubSeq(body, Len(Concat(whole)) + 1, client.delivered)
           /\ ~client.isLoading /\ client.error = "null" =>
                 /\ whole = client.lines
                 /\ client.buffer = <<>>

\* C15's case: the loop has ended on a body of a line that is no JSON between two
\* transactions events, some read having ended inside a line.
C15_Witness ==
    /\ client.attached
    /\ ~client.isLoading /\ client.error = "null"
    /\ client.carried
    /\ client.logged = 1
    /\ Len(client.handled) = 2
    /\ client.transactions = <<"a", "b", "a">>

\* The days of month m of year y.
DaysInMonth(y, m) ==
    IF m \in {4, 6, 9, 11} THEN 30
    ELSE IF m = 2 THEN
        IF y % 400 = 0 \/ (y % 4 = 0 /\ y % 100 # 0) THEN 29 ELSE 28
    ELSE 31

\* The text is YYYY-MM-DD and names a day of the calendar.
IsCalendarDate(text) ==
    /\ IsIsoDate(text)
    /\ LET y == parseInt(SubSeq(text, 1, 4))
           m == parseInt(SubSeq(text, 6, 7))
           d == parseInt(SubSeq(text, 9, 10))
       IN m \in 1..12 /\ d \in 1..DaysInMonth(y, m)

\* The day, month and year texts parseDate reads in a text of a day/month/year
\* form.
DateFields(dateStr) ==
    IF DateForm(dateStr) = "dmy4"
    THEN DayMonthYearMatch(Trim(dateStr), {"/", "-", "."}, 4)
    ELSE DayMonthYearMatch(Trim(dateStr), {"/", "-"}, 2)

\* The two-digit text of a number below 100; the four-digit text of one below
\* 10000.
TwoDigits(n) == << DigitChars[(n \div 10) + 1], DigitChars[(n % 10) + 1] >>
FourDigits(n) == TwoDigits(n \div 100) \o TwoDigits(n % 100)

\* C17: for every text of a day/month/year form, the date parseDate returns is a
\* YYYY-MM-DD text that names a day of the calendar.
C17_DatesAreCalendarDates ==
    (fn.name = "parseDate" /\ fn.returned /\ DateForm(fn.arg) \in {"dmy4", "dmy2"}) =>
        IsCalendarDate(fn.res)

\* C18: on every accepted format parseDate applied to its own result returns that
\* result; and a day/month/four-digit-year text gives the year, the month and the
\* day as numbers, zero-padded, whichever of the separators / - . it is spelled
\* with and whether or not its day and month have a leading zero.
C18_DateNormalizationIdempotent ==
    (fn.name = "parseDate" /\ fn.returned /\ DateForm(fn.arg) \in {"iso", "dmy4", "dmy2"}) =>
        /\ DateForm(fn.res) = "iso"
        /\ parseDate(fn.res, InvalidDate) = fn.res
        /\ DateForm(fn.arg) = "dmy4" =>
              LET f == DateFields(fn.arg) IN
              fn.res = FourDigits(parseInt(f.year)) \o <<"-">> \o TwoDigits(parseInt(f.month))
                          \o <<"-">> \o TwoDigits(parseInt(f.day))

\* C18's case: a date spelled with dots and without leading zeros.
C18_Witness ==
    /\ fn.name = "parseDate"
    /\ fn.returned
    /\ fn.arg = <<"5", ".", "6", ".", "2", "0", "2", "4">>
    /\ fn.res = <<"2", "0", "2", "4", "-", "0", "6", "-", "0", "5">>

\* C19: for a day/month text with a two-digit year YY, the year of the date
\* returned is 20YY when YY is below 50 and 19YY when YY is 50 or above.
C19_CenturySplit ==
    (fn.name = "parseDate" /\ fn.returned /\ DateForm(fn.arg) = "dmy2") =>
        LET yy == parseInt(DateFields(fn.arg).year) IN
        SubSeq(fn.res, 1, 4) = FourDigits(IF yy < 50 THEN 2000 + yy ELSE 1900 + yy)

\* What is left of an amount text without currency symbols, white space, commas
\* and a trailing Dr or Cr.
AmountRemainder(text) ==
    StripDrCr(SelectSeq(text, LAMBDA ch : ch \notin {"$", "_", ","}))

\* The text is a number: digits with at most one decimal point among them, after
\* an optional minus sign.
IsNumeral(text) ==
    LET body == IF text # <<>> /\ text[1] = "-" THEN Tail(text) ELSE text IN
    /\ \E k \in DOMAIN body : IsDigit(body[k])
    /\ \A k \in DOMAIN body : IsDigit(body[k]) \/ body[k] = "."
    /\ Cardinality({k \in DOMAIN body : body[k] = "."}) <= 1

\* The absolute value of the number a numeral denotes.
RECURSIVE Pow10(_)
Pow10(n) == IF n = 0 THEN 1 ELSE 10 * Pow10(n - 1)

NumeralMagnitude(text) ==
    LET digits == SelectSeq(text, IsDigit)
        dots == {k \in DOMAIN text : text[k] = "."}
        scale == IF dots = {} THEN 0 ELSE Len(text) - (CHOOSE k \in dots : TRUE)
    IN [units |-> parseInt(digits), per |-> Pow10(scale)]

C16_NoZeroAmountTransaction ==
    \A k \in DOMAIN events : events[k].type = "transactions" =>
        \A j \in DOMAIN events[k].data :
            ~(events[k].data[j].debit.mag = 0 /\ events[k].data[j].credit.mag = 0)

\* ceil(n / k)
CeilDiv(n, k) == (n + k - 1) \div k

RECURSIVE CallsUpTo(_)
CallsUpTo(c) == IF c = 0 THEN 0 ELSE chunkLog[c].calls + CallsUpTo(c - 1)

\* C29: whatever the kinds of failure a chunk meets, it is dispatched to the
\* extraction capability at most 3 times (the retry counter is at most 3 and
\* counts every caught error), so a document of C chunks causes at most 3 * C
\* external calls.
C29_DispatchBound ==
    /\ retries <= MAX_RETRIES + 1
    /\ \A c \in ChunkNumbers :
          /\ chunkLog[c].calls <= MAX_RETRIES + 1
          /\ chunkLog[c].status \in {"Dispatched", "Retrying"} /\ c = i + 1 =>
                chunkLog[c].rl + chunkLog[c].gen + chunkLog[c].bad + chunkLog[c].io
                    = retries
    /\ CallsUpTo(Len(chunkLog)) <= (MAX_RETRIES + 1) * Len(chunks)

\* C29's case: a document of two chunks, each dispatched three times, one of
\* them failing once by rate limit, once by a failed call and once by a reply
\* whose handling throws, and the loop past both.
C29_Witness ==
    /\ Len(chunks) = 2
    /\ i = 2
    /\ \A c \in ChunkNumbers : chunkLog[c].calls = MAX_RETRIES + 1
    /\ \E c \in ChunkNumbers :
          chunkLog[c].rl = 1 /\ chunkLog[c].gen = 1 /\ chunkLog[c].bad = 1

\* C28: a chunk that succeeded and is not the last is followed by a pacing
\* delay, 2 s for gemini and 5 s otherwise, that has elapsed before anything is
\* done for the next chunk; no pacing delay follows the last chunk; the pacing
\* timer is never the 32 s of the rate-limit backoff, which is the only timer
\* of a failed attempt.
C28_PacingBetweenChunks ==
    /\ \A c \in ChunkNumbers :
          /\ c > 1 /\ chunkLog[c].status # "Pending"
                   /\ chunkLog[c - 1].status = "Succeeded" =>
                chunkLog[c - 1].paced = PacingDelay(request.apiProvider)
          /\ c = Len(chunks) => chunkLog[c].paced = 0
          /\ chunkLog[c].paced # 0 => chunkLog[c].status = "Succeeded"
          /\ chunkLog[c].paced # RATE_LIMIT_WAIT
    /\ PacingDelay("gemini") = 2000 /\ PacingDelay("groq") = 5000
    /\ pc = "pacing" =>
          /\ sleep = PacingDelay(request.apiProvider)
          /\ chunkSuccess /\ i < Len(chunks) - 1
          /\ chunkLog[i + 1].status = "Succeeded" /\ chunkLog[i + 1].paced = 0
    /\ pc = "backoff" => sleep = RATE_LIMIT_WAIT /\ ~chunkSuccess

\* C28's case: a two-chunk document finished; the first chunk was rate limited
\* once, then succeeded and was followed by the pacing delay; the second
\* succeeded and was followed by none.
C28_Witness ==
    /\ pc = "done" /\ Len(chunks) = 2
    /\ chunkLog[1].status = "Succeeded" /\ chunkLog[1].rl = 1
    /\ chunkLog[1].paced = PacingDelay(request.apiProvider)
    /\ chunkLog[2].status = "Succeeded" /\ chunkLog[2].calls = 1
    /\ chunkLog[2].paced = 0

\* C30: once the reader has handled an error event, processing has ended in the
\* error state: loading is over and the page's error is the event's message.
C30_ErrorEventSurfaces ==
    client.attached /\ (\E k \in DOMAIN client.handled : client.handled[k].type = "error") =>
        /\ ~client.isLoading
        /\ client.error = "event.message"

\* The index of the brace closing the object opened just before s[idx], depth
\* braces being open at s[idx]; 0 when the text ends first.
RECURSIVE CloseOf(_, _, _)
CloseOf(s, idx, depth) ==
    IF idx > Len(s) THEN 0
    ELSE IF s[idx] = "{" THEN CloseOf(s, idx + 1, depth + 1)
    ELSE IF s[idx] = "}" THEN
        IF depth = 1 THEN idx ELSE CloseOf(s, idx + 1, depth - 1)
    ELSE CloseOf(s, idx + 1, depth)

\* The opening braces of s that have their closing brace.
BalancedStarts(s) == { a \in 1..Len(s) : s[a] = "{" /\ CloseOf(s, a + 1, 1) # 0 }

\* Those of them that are at the top level: every brace opened before them is
\* closed before them.
TopLevelStarts(s) ==
    { a \in BalancedStarts(s) :
        \A b \in 1..(a - 1) :
            s[b] = "{" => b \in BalancedStarts(s) /\ CloseOf(s, b + 1, 1) < a }

\* C27: when the text (the interior of its fenced block, when it has one) holds
\* a balanced object at the top level, whatever comes before or after it, stray
\* closing braces included, the candidate handed to JSON.parse is exactly the
\* span of the first one.
C27_SlicesFirstBalancedObject ==
    (fn.name = "parseAIResponse" /\ fn.returned /\ Trim(fn.arg) # <<>>) =>
        LET inner == Unfenced(fn.arg)
            starts == TopLevelStarts(inner)
            a == CHOOSE x \in starts : \A y \in starts : x <= y
        IN starts # {} => JsonStr(fn.arg) = SubSeq(inner, a, CloseOf(inner, a + 1, 1))

\* C21: determineDebitCredit puts the parsed amount in one of debit and credit
\* and 0 in the other: in debit when the hint holds a debit word; otherwise in
\* credit when the hint holds a credit word; otherwise in debit when the amount
\* has a Dr marker, a leading minus sign or is a negative number; otherwise
\* (a Cr marker, or no indicator at all) in credit.
C21_DebitCreditRouting ==
    (fn.name = "determineDebitCredit" /\ fn.returned) =>
        LET a == fn.arg.amountStr
            hint == toLowerCase(fn.arg.typeHint)
            amount == parseAmount(a)
            zero == Decimal(FALSE, 0, 0)
            text == IF a.type = "string" THEN Trim(a.val) ELSE <<>>
            debitHint == \E w \in DebitWords : StringIncludes(hint, w)
            creditHint == \E w \in CreditWords : StringIncludes(hint, w)
            drMarker == StringIncludes(text, <<"d", "r">>)
            leadingMinus == text # <<>> /\ text[1] = "-"
            negative == a.type = "number" /\ a.val.neg /\ a.val.mag # 0
            toDebit == debitHint \/ (~creditHint /\ (drMarker \/ leadingMinus \/ negative))
        IN fn.res = IF toDebit THEN [debit |-> amount, credit |-> zero]
                              ELSE [debit |-> zero, credit |-> amount]

\* The tuple two transactions have to share to be duplicates of each other.
DuplicateTuple(tx) ==
    << tx.date, Trim(toLowerCase(tx.description)), tx.debit, tx.credit, tx.reference >>

\* C22: findDuplicates returns exactly the ids of the transactions for which
\* another transaction of the list has the same (date, lowercased trimmed
\* description, debit, credit, reference): every member of such a group, and no
\* transaction whose tuple differs from every other's.
C22_DuplicatesExactlyColliding ==
    (fn.name = "findDuplicates" /\ fn.returned) =>
        fn.res = { fn.arg[k].id : k \in
                     { k \in DOMAIN fn.arg :
                         \E j \in DOMAIN fn.arg :
                             j # k /\ DuplicateTuple(fn.arg[j]) = DuplicateTuple(fn.arg[k]) } }

\* generateTallyXml has returned the document of a list of transactions.
Exported == fn.name = "generateTallyXml" /\ fn.returned

\* The index of the first rule with a keyword that occurs in the description,
\* case ignored; 0 when there is none.
FirstRuleIndex(tx, rules) ==
    LET hits == { k \in DOMAIN rules :
                    \E j \in DOMAIN rules[k].keywords :
                        StringIncludes(toLowerCase(tx.description),
                                       toLowerCase(rules[k].keywords[j])) }
    IN IF hits = {} THEN 0 ELSE CHOOSE k \in hits : \A h \in hits : k <= h

\* The counterparty ledger of a transaction: the first matching rule's ledger,
\* or the suspense ledger.
CounterpartyOf(tx, options) ==
    LET k == FirstRuleIndex(tx, options.ledgerRules)
    IN IF k = 0 THEN options.suspenseLedger ELSE options.ledgerRules[k].ledgerName

\* The voucher type derived from a transaction alone.
DerivedVoucherType(tx) ==
    LET desc == toLowerCase(tx.description) IN
    IF StringIncludes(desc, WordTransfer)
          /\ (StringIncludes(desc, WordSelf) \/ StringIncludes(desc, WordOwn))
    THEN VoucherContra
    ELSE IF Positive(tx.debit) THEN VoucherPayment ELSE VoucherReceipt

\* An amount as the export writes it: digits, a point, two digits.
IsPlainAmount(text) ==
    /\ Len(text) >= 4
    /\ text[Len(text) - 2] = "."
    /\ \A k \in DOMAIN text : k # Len(text) - 2 => IsDigit(text[k])

\* C23: every voucher has exactly two ledger entries, the debited ledger's
\* amount negative and the credited ledger's positive and of the same magnitude;
\* when debit > 0 the counterparty ledger is debited and the bank ledger
\* credited, otherwise the bank ledger is debited and the counterparty credited.
C23_DoubleEntry ==
    Exported =>
        \A k \in DOMAIN fn.res.VOUCHERS :
            LET tx == fn.arg.transactions[k]
                o == FullOptions(fn.arg.options)
                e == fn.res.VOUCHERS[k].ALLLEDGERENTRIES
                debited == { j \in DOMAIN e : e[j].ISDEEMEDPOSITIVE = <<"Y", "e", "s">> }
                credited == { j \in DOMAIN e : e[j].ISDEEMEDPOSITIVE = <<"N", "o">> }
            IN /\ Len(e) = 2
               /\ Cardinality(debited) = 1 /\ Cardinality(credited) = 1
               /\ \A d \in debited : \A c \in credited :
                     /\ IsPlainAmount(e[c].AMOUNT)
                     /\ e[d].AMOUNT = <<"-">> \o e[c].AMOUNT
                     /\ IF Positive(tx.debit)
                        THEN /\ e[d].LEDGERNAME = escapeXml(CounterpartyOf(tx, o))
                             /\ e[c].LEDGERNAME = escapeXml(o.bankName)
                        ELSE /\ e[d].LEDGERNAME = escapeXml(o.bankName)
                             /\ e[c].LEDGERNAME = escapeXml(CounterpartyOf(tx, o))

\* C23's case: a document of two vouchers, the first of money paid out, the
\* second of money paid in, the counterparty ledger not the bank ledger.
C23_Witness ==
    /\ Exported
    /\ Len(fn.res.VOUCHERS) = 2
    /\ Positive(fn.arg.transactions[1].debit)
    /\ ~Positive(fn.arg.transactions[2].debit) /\ Positive(fn.arg.transactions[2].credit)
    /\ \A k \in 1..2 :
          fn.res.VOUCHERS[k].ALLLEDGERENTRIES[1].LEDGERNAME
              # fn.res.VOUCHERS[k].ALLLEDGERENTRIES[2].LEDGERNAME

\* C24: when no ledger rule matches, the voucher's type is Contra if the
\* description holds "transfer" together with "self" or "own", case ignored,
\* otherwise Payment if debit > 0, otherwise Receipt.
C24_VoucherType ==
    Exported =>
        \A k \in DOMAIN fn.res.VOUCHERS :
            LET tx == fn.arg.transactions[k]
                desc == toLowerCase(tx.description)
                selfTransfer ==
                    /\ StringIncludes(desc, WordTransfer)
                    /\ StringIncludes(desc, WordSelf) \/ StringIncludes(desc, WordOwn)
                type == IF selfTransfer THEN VoucherContra
                        ELSE IF Positive(tx.debit) THEN VoucherPayment
                        ELSE VoucherReceipt
            IN FirstRuleIndex(tx, fn.arg.options.ledgerRules) = 0 =>
                  /\ fn.res.VOUCHERS[k].VCHTYPE = type
                  /\ fn.res.VOUCHERS[k].VOUCHERTYPENAME = type

\* C24's case: with no rules, a self transfer paid out is a Contra voucher and
\* a transfer paid in that is no self transfer is a Receipt voucher.
C24_Witness ==
    /\ Exported
    /\ fn.arg.options.ledgerRules = <<>>
    /\ Len(fn.res.VOUCHERS) = 2
    /\ Positive(fn.arg.transactions[1].debit)
    /\ fn.res.VOUCHERS[1].VCHTYPE = VoucherContra
    /\ StringIncludes(toLowerCase(fn.arg.transactions[2].description), WordTransfer)
    /\ fn.res.VOUCHERS[2].VCHTYPE = VoucherReceipt

\* C25: the rules are tried in declaration order and the first with a keyword
\* occurring in the description, case ignored, wins: its ledger is the
\* counterparty ledger and its voucher type, when it names one, is the
\* voucher's type; when no rule matches the counterparty ledger is the suspense
\* ledger and the type is the derived one.
C25_FirstRuleWins ==
    Exported =>
        \A k \in DOMAIN fn.res.VOUCHERS :
            LET tx == fn.arg.transactions[k]
                o == FullOptions(fn.arg.options)
                v == fn.res.VOUCHERS[k]
                r == FirstRuleIndex(tx, o.ledgerRules)
                counterparty == IF Positive(tx.debit)
                                THEN v.ALLLEDGERENTRIES[1].LEDGERNAME
                                ELSE v.ALLLEDGERENTRIES[2].LEDGERNAME
            IN /\ counterparty = escapeXml(IF r = 0 THEN o.suspenseLedger
                                           ELSE o.ledgerRules[r].ledgerName)
               /\ v.VCHTYPE = IF r # 0 /\ o.ledgerRules[r].voucherType # <<>>
                              THEN o.ledgerRules[r].voucherType
                              ELSE DerivedVoucherType(tx)

\* C25's case: two rules that both match the first transaction and name
\* different ledgers, the first of them naming no voucher type; and a second
\* transaction no rule matches.
C25_Witness ==
    /\ Exported
    /\ Len(fn.res.VOUCHERS) = 2
    /\ LET rules == fn.arg.options.ledgerRules
           desc == toLowerCase(fn.arg.transactions[1].description)
       IN /\ Len(rules) = 2
          /\ \A k \in 1..2 : \E j \in DOMAIN rules[k].keywords :
                StringIncludes(desc, toLowerCase(rules[k].keywords[j]))
          /\ rules[1].ledgerName # rules[2].ledgerName
          /\ rules[1].voucherType = <<>> /\ rules[2].voucherType # <<>>
          /\ FirstRuleIndex(fn.arg.transactions[2], rules) = 0

\* A text in which the characters XML reserves occur as entities only.
IsEscaped(text) ==
    \A k \in DOMAIN text :
        /\ text[k] \notin {"<", ">", "\"", "'"}
        /\ text[k] = "&" =>
              \E ent \in {EntityAmp, EntityLt, EntityGt, EntityQuot, EntityApos} :
                  /\ k + Len(ent) - 1 <= Len(text)
                  /\ SubSeq(text, k, k + Len(ent) - 1) = ent

\* C26: every text put in the export document (voucher id, voucher type, date,
\* narration, ledger names, company name) is XML-escaped.
C26_TextEscaped ==
    Exported =>
        /\ IsEscaped(fn.res.SVCURRENTCOMPANY)
        /\ \A k \in DOMAIN fn.res.VOUCHERS :
              LET v == fn.res.VOUCHERS[k] IN
              /\ IsEscaped(v.REMOTEID)
              /\ IsEscaped(v.VCHTYPE)
              /\ IsEscaped(v.VOUCHERTYPENAME)
              /\ IsEscaped(v.DATE)
              /\ IsEscaped(v.NARRATION)
              /\ \A j \in DOMAIN v.ALLLEDGERENTRIES : IsEscaped(v.ALLLEDGERENTRIES[j].LEDGERNAME)

====
